---- MODULE Spec2Model ----
(***************************************************************************)
(* Verification model of the rc-decision-engine decision pipeline:         *)
(*   - Calibrator.calibrate and DriftDetector.should_recalibrate           *)
(*     (engine/calibration)                                                *)
(*   - the rule engine's _make_verdict (src/judgment/rule_engine.py)       *)
(*   - MonteCarloEngine.run and Judge.decide (engine/decision), driving    *)
(*     NavierStokesEngine, SprayCoverageEngine (engine/physics) or a       *)
(*     deterministic engine of unspecified physics                         *)
(*   - DriftDetector.compute_drift (engine/calibration)                    *)
(*   - the calibration service over table calibration_states               *)
(*     (backend/app/calibration, backend/app/db)                           *)
(*   - simulation requests through the API and the CLI, and the climate    *)
(*     preset lookups (backend/app/simulation, backend/engine, src/cli.py, *)
(*     engine/environment)                                                 *)
(*   - functions called on their own: the environment sampler, the spray   *)
(*     engine's predict, the rule engine's evaluate with its checks,       *)
(*     PhysicsImputer.impute, the coverage simulation                      *)
(*     (backend/engine/spray_simulation.py) and ThermodynamicsEngine       *)
(*                                                                         *)
(* Numbers.  Python floats are modelled exactly where the code only adds,  *)
(* multiplies, divides and compares: a value is a rational <<n, d>> in     *)
(* lowest terms with d > 0.                                                *)
(***************************************************************************)
EXTENDS Integers, Sequences, FiniteSets, TLC

VARIABLES
    \* --- Calibrator (engine/calibration/calibrator.py)
    learning_rate,      \* Calibrator.learning_rate
    current_params,     \* the caller's current_params mapping
    sensor_data,        \* the caller's sensor_data mapping
    cal_result,         \* the CalibrationResult returned, or None
    \* --- DriftDetector (engine/calibration/drift_detector.py)
    threshold_pct,      \* DriftDetector.threshold_pct
    sustained_minutes,  \* DriftDetector.sustained_minutes
    drift_history,      \* the drift_history list handed to should_recalibrate
    recalibrate,        \* the value should_recalibrate returned, or None
    \* --- rule engine (src/judgment/rule_engine.py)
    failures,           \* the list of FailureObservation collected by evaluate
    judgment,           \* the JudgmentResult returned, or None
    \* --- Monte Carlo engine and Judge (engine/decision)
    physics_engine,     \* MonteCarloEngine.physics_engine: which engine it drives
    n_samples,          \* MonteCarloEngine.n_samples
    run_assets,         \* the assets handed to decide
    run_params,         \* the calibrated parameters handed to decide, or None
    np_random,          \* the state of numpy's module-level generator
    engine_table,       \* what the test-double engine has returned, per input
    runs,               \* the invocations of Judge.decide, each with its locals
    \* --- DriftDetector.compute_drift (engine/calibration/drift_detector.py)
    computed_drift,     \* what compute_drift did: None before the call
    \* --- calibration service (backend/app/calibration/service.py)
    calibration_states, \* the committed rows of table calibration_states
    sessions,           \* the requests in flight, each with its own db session
    appended,           \* every drift entry a committed call appended, in order
    calls,              \* how many service calls have been started (bounded)
    response,           \* what the most recent service call returned, or None
    \* --- simulation API and CLI (backend/app/simulation, src/cli.py)
    project,            \* the project the request names, or None if there is none
    climate_preset,     \* the climate preset key of the request
    simulation_runs,    \* the rows of table simulation_runs
    http_response,      \* the response of the most recent API request, or None
    cli_result,         \* how the most recent CLI run ended, or None
    preset_lookup,      \* the most recent climate preset lookup, or None
    coverage_computations, \* how many coverage computations have been started
    requests_made,      \* how many requests, runs and lookups have been made
    \* --- a function of the library called on its own
    arguments,          \* the arguments of the call, or None
    returned            \* what the call returned, or None before it

calVars   == <<learning_rate, current_params, sensor_data, cal_result>>
driftVars == <<threshold_pct, sustained_minutes, drift_history, recalibrate>>
ruleVars  == <<failures, judgment>>
mcVars    == <<physics_engine, n_samples, run_assets, run_params, np_random, engine_table, runs>>
cdVars    == <<computed_drift>>
pipelineVars == <<calVars, driftVars, ruleVars, mcVars>>
svcVars   == <<calibration_states, sessions, appended, calls, response>>
simVars   == <<project, climate_preset, simulation_runs, http_response, cli_result,
               preset_lookup, coverage_computations, requests_made>>
fnVars    == <<arguments, returned>>
appVars   == <<cdVars, svcVars, simVars, fnVars>>
vars      == <<pipelineVars, appVars>>

\* An optional value: <<>> is Python's None, <<v>> a value v.
None == <<>>
Some(v) == <<v>>

(***************************************************************************)
(* Exact rational arithmetic for float-valued quantities.                  *)
(***************************************************************************)
RECURSIVE Gcd(_, _)
Gcd(a, b) == IF b = 0 THEN a ELSE Gcd(b, a % b)

AbsInt(x) == IF x < 0 THEN -x ELSE x

Rat(n, d) ==
    LET s == IF d < 0 THEN -1 ELSE 1
        g == Gcd(AbsInt(n), AbsInt(d))
    IN  <<(s * n) \div g, (s * d) \div g>>

RInt(n)    == <<n, 1>>
RNeg(x)    == <<-x[1], x[2]>>
RAdd(x, y) ==
    LET g == Gcd(x[2], y[2])
    IN  Rat(x[1] * (y[2] \div g) + y[1] * (x[2] \div g), (x[2] \div g) * y[2])
RSub(x, y) == RAdd(x, RNeg(y))
RMul(x, y) == Rat(x[1] * y[1], x[2] * y[2])
RDiv(x, y) == Rat(x[1] * y[2], x[2] * y[1])
RAbs(x)    == <<AbsInt(x[1]), x[2]>>
RLt(x, y)  == x[1] * y[2] < y[1] * x[2]
RLe(x, y)  == x[1] * y[2] <= y[1] * x[2]
RZero      == <<0, 1>>
ROne       == <<1, 1>>

RECURSIVE RSum(_)
RSum(s) == IF s = <<>> THEN RZero ELSE RAdd(Head(s), RSum(Tail(s)))

\* A sequence enumerating a finite set (the iteration order of a dict).
RECURSIVE SetToSeq(_)
SetToSeq(S) ==
    IF S = {} THEN <<>>
    ELSE LET x == CHOOSE y \in S : TRUE IN <<x>> \o SetToSeq(S \ {x})

(***************************************************************************)
(* Calibrator                                                              *)
(***************************************************************************)
\* dict(current_params): a new mapping with the same items.
DictCopy(d) == [k \in DOMAIN d |-> d[k]]

\* The parameters the loop of calibrate corrects: present in sensor_data and
\* non-zero.
Correctable(params, sensor) ==
    {p \in DOMAIN params : p \in DOMAIN sensor /\ params[p] # RZero}

\* Mutant: the error is divided by current_value, not by its magnitude.
CorrectionNoAbs(lr, current_value, sensor_value) ==
    RMul(lr, RDiv(RSub(sensor_value, current_value), current_value))

\* correction = learning_rate * (sensor_value - current_value) / abs(current_value)
Correction(lr, current_value, sensor_value) ==
    RMul(lr, RDiv(RSub(sensor_value, current_value), RAbs(current_value)))

\* Mutant: readings_used counts every parameter found in sensor_data, also the
\* zero-valued ones that are skipped.
ReadingsUsedShared(params, sensor) ==
    Cardinality(DOMAIN params \cap DOMAIN sensor)

\* readings_used: incremented once per corrected parameter.
ReadingsUsed(params, sensor) == Cardinality(Correctable(params, sensor))

\* Calibrator.calibrate.  Returns the CalibrationResult together with the
\* caller's mapping as the call leaves it (calibrate writes to a copy).
calibrate(lr, params, sensor) ==
    LET new_params0 == DictCopy(params)
        touched     == Correctable(params, sensor)
        corrections == [p \in touched |-> Correction(lr, params[p], sensor[p])]
        new_params  == [p \in DOMAIN new_params0 |->
                          IF p \in touched
                          THEN RMul(params[p], RAdd(ROne, corrections[p]))
                          ELSE new_params0[p]]
        readings_used == ReadingsUsed(params, sensor)
        drift_pct   == IF touched # {}
                       THEN RMul(RDiv(RSum([i \in 1..Cardinality(touched) |->
                                        RAbs(corrections[SetToSeq(touched)[i]])]),
                                      RInt(Cardinality(touched))),
                                 RInt(100))
                       ELSE RZero
        status      == IF readings_used > 0 THEN "calibrated" ELSE "insufficient_data"
    IN  [result |-> [drift_percentage     |-> drift_pct,
                     corrections_applied  |-> corrections,
                     new_physics_params   |-> new_params,
                     sensor_readings_used |-> readings_used,
                     status               |-> status],
         current_params |-> params]

\* Inputs of the calibration cycle.
ParamNames   == {"friction", "drag_coeff"}
SensorNames  == ParamNames \cup {"humidity"}
ParamValues  == {RInt(-2), RZero, RInt(4)}
SensorValues == {RInt(3), RInt(4)}
LearningRates == {Rat(1, 10), ROne}

\* All mappings from a subset of Keys to Vals (the dicts a caller can pass).
Dicts(Keys, Vals) == UNION {[D -> Vals] : D \in SUBSET Keys}

\* Each component at rest: nothing constructed, nothing called.  A
\* specification of one component keeps the others at rest.
CalIdle ==
    /\ learning_rate = ROne /\ current_params = <<>> /\ sensor_data = <<>>
    /\ cal_result = None

DriftIdle ==
    /\ threshold_pct = RZero /\ sustained_minutes = 0
    /\ drift_history = <<>> /\ recalibrate = None

RuleIdle == failures = <<>> /\ judgment = None

McIdle ==
    /\ physics_engine = "stub" /\ n_samples = 0 /\ run_assets = <<>> /\ run_params = None
    /\ np_random = 0 /\ engine_table = {} /\ runs = <<>>

ComputeDriftIdle == computed_drift = None

ServiceIdle ==
    /\ calibration_states = <<>> /\ sessions = <<>> /\ appended = <<>>
    /\ calls = 0 /\ response = None

SimIdle ==
    /\ project = None /\ climate_preset = "" /\ simulation_runs = <<>>
    /\ http_response = None /\ cli_result = None /\ preset_lookup = None
    /\ coverage_computations = 0 /\ requests_made = 0

FnIdle == arguments = None /\ returned = None

\* The components outside the decision pipeline at rest.
AppIdle == ComputeDriftIdle /\ ServiceIdle /\ SimIdle /\ FnIdle

InitCal ==
    /\ learning_rate \in LearningRates
    /\ current_params \in Dicts(ParamNames, ParamValues)
    /\ sensor_data \in Dicts(SensorNames, SensorValues)
    /\ cal_result = None
    /\ DriftIdle /\ RuleIdle /\ McIdle /\ AppIdle

\* One call Calibrator(learning_rate).calibrate(current_params, sensor_data).
Calibrate ==
    /\ cal_result = None
    /\ LET r == calibrate(learning_rate, current_params, sensor_data)
       IN  /\ cal_result' = Some(r.result)
           /\ current_params' = r.current_params
    /\ UNCHANGED <<learning_rate, sensor_data, driftVars, ruleVars, mcVars, appVars>>

NextCal == Calibrate

SpecCal == InitCal /\ [][NextCal]_vars

(***************************************************************************)
(* Claims about Calibrator.calibrate                                       *)
(***************************************************************************)
Sign(x) == IF x[1] < 0 THEN -1 ELSE IF x[1] > 0 THEN 1 ELSE 0

\* new = c * (1 + lr * (s - c) / |c|), stated over the integers:
\* new = c + lr * sgn(c) * (s - c), cross-multiplied.
IsProportionalUpdate(new, c, s, lr) ==
    new[1] * c[2] * lr[2] * s[2]
        = new[2] * (c[1] * lr[2] * s[2] + lr[1] * Sign(c) * (s[1] * c[2] - c[1] * s[2]))

CalPost(before, sensor, lr, res) ==
    /\ DOMAIN res.new_physics_params = DOMAIN before
    /\ \A p \in DOMAIN before :
         IF p \in DOMAIN sensor /\ before[p] # RZero
         THEN /\ p \in DOMAIN res.corrections_applied
              /\ IsProportionalUpdate(res.new_physics_params[p], before[p], sensor[p], lr)
         ELSE /\ p \notin DOMAIN res.corrections_applied
              /\ res.new_physics_params[p] = before[p]

NothingCorrectable ==
    \A p \in DOMAIN current_params \cap DOMAIN sensor_data : current_params[p] = RZero

\* C10: when no parameter can be corrected calibrate returns
\* "insufficient_data" with empty corrections, drift 0.0, zero readings and
\* new_physics_params equal to current_params; the status is "calibrated"
\* exactly when at least one parameter was corrected.
C10_InsufficientDataWhenNothingCorrected ==
    cal_result # None =>
        /\ cal_result[1].status \in {"calibrated", "insufficient_data"}
        /\ (cal_result[1].status = "calibrated") <=> (DOMAIN cal_result[1].corrections_applied # {})
        /\ NothingCorrectable =>
             /\ cal_result[1].status = "insufficient_data"
             /\ DOMAIN cal_result[1].corrections_applied = {}
             /\ cal_result[1].drift_percentage = RZero
             /\ cal_result[1].sensor_readings_used = 0
             /\ cal_result[1].new_physics_params = current_params

C10_Witness ==
    /\ cal_result # None
    /\ cal_result[1].status = "insufficient_data"
    /\ \E p \in DOMAIN current_params \cap DOMAIN sensor_data : current_params[p] = RZero

(***************************************************************************)
(* DriftDetector.should_recalibrate                                        *)
(***************************************************************************)
DRIFT_THRESHOLD_PCT == 5
DRIFT_SUSTAINED_MINUTES == 10

\* entry.get("drift_pct", 0)
GetDriftPct(entry) ==
    IF "drift_pct" \in DOMAIN entry THEN entry.drift_pct ELSE RZero

\* Python's seq[start:] for any integer start.
SliceFrom(seq, start) ==
    LET n    == Len(seq)
        from == IF start < 0
                THEN (IF n + start < 0 THEN 0 ELSE n + start)
                ELSE (IF start > n THEN n ELSE start)
    IN  SubSeq(seq, from + 1, n)

\* Mutant: an entry equal to the threshold counts as exceeding it.
ExceedsOrEquals(entry, threshold) == RLe(threshold, GetDriftPct(entry))

\* entry.get("drift_pct", 0) > self.threshold_pct
Exceeds(entry, threshold) == RLt(threshold, GetDriftPct(entry))

should_recalibrate(threshold, sustained, history) ==
    IF history = <<>> THEN FALSE
    ELSE LET recent == SliceFrom(history, -sustained)
         IN  IF Len(recent) < sustained THEN FALSE
             ELSE \A i \in 1..Len(recent) : Exceeds(recent[i], threshold)

\* Bounds of the drift-detector specification.
MaxWindow  == 2
MaxHistory == 3

DriftValues == {RZero, RInt(DRIFT_THRESHOLD_PCT), RInt(DRIFT_THRESHOLD_PCT + 1)}
Thresholds  == {RZero, RInt(DRIFT_THRESHOLD_PCT)}
Windows     == (0..MaxWindow) \cup {DRIFT_SUSTAINED_MINUTES}

\* The entries a history can hold at logical time `at`: with a drift_pct,
\* or (a legacy entry) without one.
Entries(at) == {[drift_pct |-> v, at |-> at] : v \in DriftValues} \cup {[at |-> at]}

InitDrift ==
    /\ threshold_pct \in Thresholds
    /\ sustained_minutes \in Windows
    /\ drift_history = <<>>
    /\ recalibrate = None
    /\ CalIdle /\ RuleIdle /\ McIdle /\ AppIdle

\* The caller records one more drift measurement in the history.
RecordDrift ==
    /\ Len(drift_history) < MaxHistory
    /\ \E e \in Entries(Len(drift_history) + 1) :
         drift_history' = Append(drift_history, e)
    /\ recalibrate' = None
    /\ UNCHANGED <<threshold_pct, sustained_minutes, calVars, ruleVars, mcVars, appVars>>

\* One call DriftDetector(threshold_pct, sustained_minutes)
\*              .should_recalibrate(drift_history).
ShouldRecalibrate ==
    /\ recalibrate = None
    /\ recalibrate' = Some(should_recalibrate(threshold_pct, sustained_minutes,
                                              drift_history))
    /\ UNCHANGED <<threshold_pct, sustained_minutes, drift_history, calVars, ruleVars, mcVars, appVars>>

NextDrift == RecordDrift \/ ShouldRecalibrate

SpecDrift == InitDrift /\ [][NextDrift]_vars

\* The positions of the most recent sustained_minutes entries.
Window == {i \in 1..Len(drift_history) : i > Len(drift_history) - sustained_minutes}

AboveThreshold(e) ==
    /\ "drift_pct" \in DOMAIN e
    /\ e.drift_pct[1] * threshold_pct[2] > threshold_pct[1] * e.drift_pct[2]

\* C8: should_recalibrate returns true only if the history has at least
\* sustained_minutes entries and each of the most recent sustained_minutes
\* entries has drift_pct strictly above the threshold; it returns false for an
\* empty history, for one shorter than the window, and whenever an entry of
\* the window is at or below the threshold.
C8_RecalibrateOnlyOnSustainedDrift ==
    recalibrate # None =>
        /\ recalibrate[1] =>
             /\ Len(drift_history) >= sustained_minutes
             /\ \A i \in Window : AboveThreshold(drift_history[i])
        /\ drift_history = <<>> => ~recalibrate[1]
        /\ Len(drift_history) < sustained_minutes => ~recalibrate[1]
        /\ (\E i \in Window : ~AboveThreshold(drift_history[i])) => ~recalibrate[1]

C8_Witness ==
    /\ recalibrate = Some(TRUE)
    /\ sustained_minutes = MaxWindow
    /\ Len(drift_history) > sustained_minutes
    /\ ~AboveThreshold(drift_history[1])

(***************************************************************************)
(* Rule engine: _make_verdict                                              *)
(***************************************************************************)
\* [f for f in failures if f.severity == sev]
RECURSIVE SelectSeqBy(_, _)
SelectSeqBy(seq, sev) ==
    IF seq = <<>> THEN <<>>
    ELSE IF Head(seq).severity = sev
         THEN <<Head(seq)>> \o SelectSeqBy(Tail(seq), sev)
         ELSE SelectSeqBy(Tail(seq), sev)

\* Mutant: every warning's recommendation becomes a condition, empty or not.
RECURSIVE ConditionsUnfiltered(_)
ConditionsUnfiltered(warnings) ==
    IF warnings = <<>> THEN <<>>
    ELSE <<Head(warnings).recommendation>> \o ConditionsUnfiltered(Tail(warnings))

\* [w.recommendation for w in warnings if w.recommendation]
RECURSIVE Conditions(_)
Conditions(warnings) ==
    IF warnings = <<>> THEN <<>>
    ELSE IF Head(warnings).recommendation # ""
         THEN <<Head(warnings).recommendation>> \o Conditions(Tail(warnings))
         ELSE Conditions(Tail(warnings))

\* _make_verdict(failures) -> JudgmentResult.  summary carries the count the
\* message embeds, limitations the number of limitation lines.
make_verdict(fs) ==
    LET critical == SelectSeqBy(fs, "critical")
        warnings == SelectSeqBy(fs, "warning")
    IN  IF critical # <<>>
        THEN [verdict |-> "FAIL", confidence |-> Rat(9, 10),
              summary |-> Len(critical), failures |-> fs,
              conditions |-> <<>>, limitations |-> 3]
        ELSE IF warnings # <<>>
        THEN [verdict |-> "CONDITIONAL_PASS", confidence |-> Rat(7, 10),
              summary |-> Len(warnings), failures |-> fs,
              conditions |-> Conditions(warnings), limitations |-> 3]
        ELSE [verdict |-> "PASS", confidence |-> Rat(8, 10),
              summary |-> 0, failures |-> fs,
              conditions |-> <<>>, limitations |-> 4]

\* Bound of the rule-engine specification: observations per evaluation.
MaxObservations == 3

\* FailureObservation values: the three severities, with and without a
\* recommendation (its default is "").
ObservationPool ==
    { [rule_id |-> "COV-001",  severity |-> "critical", recommendation |-> "add devices"],
      [rule_id |-> "COV-002",  severity |-> "warning",  recommendation |-> "adjust positions"],
      [rule_id |-> "SUP-001",  severity |-> "warning",  recommendation |-> "enter supply spec"],
      [rule_id |-> "WIND-001", severity |-> "warning",  recommendation |-> ""],
      [rule_id |-> "NOTE-001", severity |-> "info",     recommendation |-> "for reference"],
      [rule_id |-> "NOTE-002", severity |-> "info",     recommendation |-> ""] }

InitRule ==
    /\ failures = <<>>
    /\ judgment = None
    /\ CalIdle /\ DriftIdle /\ McIdle /\ AppIdle

\* evaluate: a rule check extends the list of observations.
Observe ==
    /\ judgment = None
    /\ Len(failures) < MaxObservations
    /\ \E o \in ObservationPool : failures' = Append(failures, o)
    /\ UNCHANGED <<judgment, calVars, driftVars, mcVars, appVars>>

\* evaluate: the final _make_verdict(failures).
MakeVerdict ==
    /\ judgment = None
    /\ judgment' = Some(make_verdict(failures))
    /\ UNCHANGED <<failures, calVars, driftVars, mcVars, appVars>>

NextRule == Observe \/ MakeVerdict

SpecRule == InitRule /\ [][NextRule]_vars

HasSeverity(sev) == \E i \in 1..Len(failures) : failures[i].severity = sev

\* The positions of the warning observations that carry a recommendation.
CondIdx == {i \in 1..Len(failures) :
              failures[i].severity = "warning" /\ failures[i].recommendation # ""}

\* conds lists the recommendations at the positions CondIdx, in order.
IsOrderedRecommendations(conds) ==
    /\ Len(conds) = Cardinality(CondIdx)
    /\ \A i \in CondIdx :
         conds[Cardinality({j \in CondIdx : j <= i})] = failures[i].recommendation

\* C7: FAIL (0.9) if some observation is critical; otherwise CONDITIONAL_PASS
\* (0.7) if some is a warning, with conditions the non-empty recommendations
\* of the warnings in order; otherwise PASS (0.8).  Conditions are empty under
\* FAIL and PASS, and failures carries every observation.
C7_VerdictBySeverity ==
    judgment # None =>
        LET j == judgment[1] IN
        /\ j.failures = failures
        /\ IF HasSeverity("critical")
           THEN j.verdict = "FAIL" /\ j.confidence = <<9, 10>> /\ j.conditions = <<>>
           ELSE IF HasSeverity("warning")
           THEN /\ j.verdict = "CONDITIONAL_PASS" /\ j.confidence = <<7, 10>>
                /\ IsOrderedRecommendations(j.conditions)
           ELSE j.verdict = "PASS" /\ j.confidence = <<4, 5>> /\ j.conditions = <<>>

C7_Witness ==
    /\ judgment # None
    /\ judgment[1].verdict = "CONDITIONAL_PASS"
    /\ Len(judgment[1].conditions) = 2
    /\ judgment[1].conditions[1] # judgment[1].conditions[2]
    /\ \E i \in 1..Len(failures) :
          failures[i].severity = "warning" /\ failures[i].recommendation = ""

(***************************************************************************)
(* Monte Carlo engine and Judge                                            *)
(*                                                                         *)
(* Units.  Environment fields are integers in tenths of their unit         *)
(* (temperature -50 is -5.0 C, wind_speed 40 is 4.0 m/s).  Lengths of the  *)
(* spray model are centimetres, speeds cm/s, droplet diameters             *)
(* micrometres.  Safety factors and the statistics computed from them are  *)
(* exact rationals, except the bounding-box coverage ratio and std_sf (a   *)
(* square root), which are rounded down to 1/1000.                         *)
(*                                                                         *)
(* Random generators.  A generator is a state s advanced by a fixed        *)
(* congruential step; a standard-normal draw is read off the state as a    *)
(* whole number of standard deviations in -2..2.  What matters to the      *)
(* claims is kept: a generator's output is a function of its state, and a  *)
(* draw advances the state.                                                *)
(***************************************************************************)
RngStep(s) == (s * 75 + 74) % 65537

\* The standard-normal deviate read off state s.
StdNormal(s) == <<-2, -1, -1, -1, -1, 0, 0, 0, 0, 0, 0, 1, 1, 1, 1, 2>>[(s % 16) + 1]

\* rng.normal(loc, scale): the value drawn in state s (the state after the draw
\* is RngStep(s)).
Normal(s, loc, scale) == loc + scale * StdNormal(RngStep(s))

\* Mutant: the generator is not seeded from the argument (one shared stream).
SeededStateShared(seed, entropy) == entropy

\* np.random.default_rng(seed): the state is a function of the seed; with
\* seed None it is fresh entropy from the operating system.
SeededState(seed, entropy) ==
    IF seed = None THEN entropy ELSE (seed[1] * 7919 + 13) % 65537

Max(a, b) == IF a > b THEN a ELSE b
Min(a, b) == IF a < b THEN a ELSE b

\* Mutant: the value is passed through unclipped.
ClipNone(x, lo, hi) == x

\* np.clip(x, lo, hi)
Clip(x, lo, hi) == Min(Max(x, lo), hi)

\* One sampled EnvironmentCondition, drawn from generator state s: six normal
\* draws in the order of the constructor call; road_surface_temp is copied.
SampleOne(base, s) ==
    LET s1 == RngStep(s)
        s2 == RngStep(s1)
        s3 == RngStep(s2)
        s4 == RngStep(s3)
        s5 == RngStep(s4)
    IN  [temperature     |-> Normal(s, base.temperature, 20),
         humidity        |-> Clip(Normal(s1, base.humidity, 100), 0, 1000),
         wind_speed      |-> Max(0, Normal(s2, base.wind_speed, 15)),
         wind_direction  |-> Normal(s3, base.wind_direction, 150) % 3600,
         precipitation   |-> Max(0, Normal(s4, base.precipitation, 5)),
         solar_radiation |-> Max(0, Normal(s5, base.solar_radiation, 500)),
         road_surface_temp |-> base.road_surface_temp]

\* The generator state after k draws.
RECURSIVE RngAdvance(_, _)
RngAdvance(s, k) == IF k = 0 THEN s ELSE RngAdvance(RngStep(s), k - 1)

\* MonteCarloEngine._sample_environment: n environments from one generator
\* created from the seed.
RECURSIVE SampleFrom(_, _, _)
SampleFrom(base, s, n) ==
    IF n = 0 THEN <<>>
    ELSE <<SampleOne(base, s)>> \o SampleFrom(base, RngAdvance(s, 6), n - 1)

sample_environment(base, seed, entropy, n) ==
    SampleFrom(base, SeededState(seed, entropy), n)

\* sin and cos of whole degrees, times 1000.
SinTable ==
    <<
       0, 17, 35, 52, 70, 87, 105, 122, 139, 156, 174, 191, 208,
       225, 242, 259, 276, 292, 309, 326, 342, 358, 375, 391, 407, 423,
       438, 454, 469, 485, 500, 515, 530, 545, 559, 574, 588, 602, 616,
       629, 643, 656, 669, 682, 695, 707, 719, 731, 743, 755, 766, 777,
       788, 799, 809, 819, 829, 839, 848, 857, 866, 875, 883, 891, 899,
       906, 914, 921, 927, 934, 940, 946, 951, 956, 961, 966, 970, 974,
       978, 982, 985, 988, 990, 993, 995, 996, 998, 999, 999, 1000, 1000
    >>

Sin1000(deg) ==
    LET d == deg % 360
    IN  IF d <= 90 THEN SinTable[d + 1]
        ELSE IF d <= 180 THEN SinTable[180 - d + 1]
        ELSE IF d <= 270 THEN -SinTable[d - 180 + 1]
        ELSE -SinTable[360 - d + 1]

Cos1000(deg) == Sin1000(deg + 90)

\* The integer square root, by Newton's iteration.
RECURSIVE ISqrtFrom(_, _)
ISqrtFrom(n, x) ==
    LET y == (x + n \div x) \div 2
    IN  IF y >= x THEN x ELSE ISqrtFrom(n, y)

ISqrt(n) == IF n <= 0 THEN 0 ELSE ISqrtFrom(n, n)

\* int(a / b) for b > 0: rounds toward zero.
TruncDiv(a, b) == IF a >= 0 THEN a \div b ELSE -((-a) \div b)

(***************************************************************************)
(* Spray-trajectory engine (NavierStokesEngine)                            *)
(***************************************************************************)
GRAVITY              == 981     \* cm/s^2
AIR_DENSITY          == 1225    \* g/m^3
BRINE_DENSITY_23PCT  == 1170    \* kg/m^3
DROPLET_DRAG_COEFF   == 44      \* hundredths
SPRAY_VELOCITY_COEFF == 95      \* hundredths
KDS_MIN_BRINE_COVERAGE == Rat(85, 100)

\* Droplets sampled per device.  The source draws 50; the model keeps the
\* same cone sweep with fewer droplets.
n_droplets == 7

\* The integration step is 0.1 s (the source steps 1 ms) and the flight is cut
\* at max_time = 5.0 s, i.e. after MaxFlightSteps steps.
StepsPerSecond == 10
MaxFlightSteps == 5 * StepsPerSecond

\* dict.get(key, default)
Get(d, key, default) == IF key \in DOMAIN d THEN d[key] ELSE default

\* SprayDeviceParams(**dp): the documented defaults for absent properties.
SprayDeviceParams(dp) ==
    [nozzle_diameter |-> Get(dp, "nozzle_diameter", 3000),   \* micrometres
     spray_angle     |-> Get(dp, "spray_angle", 60),         \* degrees
     pump_pressure   |-> Get(dp, "pump_pressure", 300000),   \* Pa
     mounting_height |-> Get(dp, "mounting_height", 30),     \* cm
     orientation     |-> Get(dp, "orientation", 0)]          \* degrees

\* _compute_spray_velocity: Cv * sqrt(2 P / rho), in cm/s.  math.sqrt raises
\* ValueError on a negative argument.
SprayVelocityRaises(pressure) == pressure < 0

compute_spray_velocity(pressure) ==
    (SPRAY_VELOCITY_COEFF
        * ISqrt(((2 * pressure * 100) \div (BRINE_DENSITY_23PCT \div 10)) * 1000))
      \div 1000

\* Drag deceleration per step and per unit of relative speed, times 100 and
\* times the droplet diameter: 0.5 * rho_air * Cd * area / mass * dt with
\* area / mass = 1.5 / (rho_brine * d).  (The source's drag force and its
\* division by rel_speed cancel, so the acceleration is -k * rel_v also at
\* rel_speed = 0.)
DragPerStep == (AIR_DENSITY * DROPLET_DRAG_COEFF * 75 * 10) \div (BRINE_DENSITY_23PCT * StepsPerSecond)

\* _droplet_trajectory's loop: explicit Euler steps until the ground or
\* max_time.  st = [x, y, z, vx, vy, vz, t].
RECURSIVE Fly(_, _, _, _)
Fly(st, wx, wy, d) ==
    IF ~(st.t < MaxFlightSteps /\ st.z > 0) THEN <<st.x, st.y>>
    ELSE LET ax == -TruncDiv((st.vx - wx) * DragPerStep, d * 100)
             ay == -TruncDiv((st.vy - wy) * DragPerStep, d * 100)
             az == -(GRAVITY \div StepsPerSecond) - TruncDiv(st.vz * DragPerStep, d * 100)
             vx == st.vx + ax
             vy == st.vy + ay
             vz == st.vz + az
         IN  Fly([x |-> st.x + TruncDiv(vx, StepsPerSecond),
                  y |-> st.y + TruncDiv(vy, StepsPerSecond),
                  z |-> st.z + TruncDiv(vz, StepsPerSecond),
                  vx |-> vx, vy |-> vy, vz |-> vz, t |-> st.t + 1],
                 wx, wy, d)

\* _droplet_trajectory(v0, angle, height, wind_speed, wind_angle, diameter):
\* the landing position (distance along the spray, lateral drift).
\* wind_speed arrives in tenths of m/s, i.e. in units of 10 cm/s.
droplet_trajectory(v0, angle_deg, height, wind_speed, wind_deg, d) ==
    Fly([x |-> 0, y |-> 0, z |-> height,
         vx |-> TruncDiv(v0 * Cos1000(angle_deg), 1000),
         vy |-> 0,
         vz |-> TruncDiv(v0 * Sin1000(angle_deg), 1000),
         t |-> 0],
        TruncDiv(wind_speed * 10 * Cos1000(wind_deg), 1000),
        TruncDiv(wind_speed * 10 * Sin1000(wind_deg), 1000),
        d)

\* exp(0.3 * z) times 1000, for the deviates z in -2..2.
ExpSigma(z) == <<549, 741, 1000, 1350, 1822>>[z + 3]

\* The i-th value (i from 0) of np.random.lognormal(mean = log(nozzle * 0.3),
\* sigma = 0.3, size = n) drawn from the module-level generator in state g.
DropletSize(g, i, nozzle) ==
    (nozzle * 3 * ExpSigma(StdNormal(RngAdvance(g, i + 1)))) \div 10000

\* The rotation of a landing position xy into the cone direction a.
Rotate(xy, a) ==
    [x |-> TruncDiv(xy[1] * Cos1000(a) - xy[2] * Sin1000(a), 1000),
     y |-> TruncDiv(xy[1] * Sin1000(a) + xy[2] * Cos1000(a), 1000)]

\* The offset of droplet i (from 0) in a cone of the given half angle.
AngleOffset(half, i) == -half + TruncDiv(2 * half * i, Max(n_droplets - 1, 1))

\* The landing point of droplet i of a device, the generator being in
\* state g when the device's sizes are drawn.
LandingPoint(sp, v0, env, g, i) ==
    Rotate(droplet_trajectory(v0, 30, sp.mounting_height, env.wind_speed,
                              TruncDiv(env.wind_direction, 10),
                              DropletSize(g, i, sp.nozzle_diameter)),
           sp.orientation + AngleOffset(TruncDiv(sp.spray_angle, 2), i))

DevicePoints(sp, env, g) ==
    [i \in 1..n_droplets |->
        LandingPoint(sp, compute_spray_velocity(sp.pump_pressure), env, g, i - 1)]

\* The landing points of the devices in order; device k draws its sizes with
\* the generator advanced by the k-1 devices before it.
RECURSIVE LandingPoints(_, _, _)
LandingPoints(devices, env, g) ==
    IF devices = <<>> THEN <<>>
    ELSE DevicePoints(SprayDeviceParams(Head(devices).properties), env, g)
           \o LandingPoints(Tail(devices), env, RngAdvance(g, n_droplets))

AssetsOfType(assets, type) == SelectSeq(assets, LAMBDA a : a.type = type)

RECURSIVE RoadArea(_)
RoadArea(roads) ==
    IF roads = <<>> THEN 0
    ELSE Get(Head(roads).properties, "length", 1000)
           * Get(Head(roads).properties, "width", 700)
         + RoadArea(Tail(roads))

SeqMax(f) == CHOOSE m \in {f[i] : i \in DOMAIN f} : \A i \in DOMAIN f : f[i] <= m
SeqMin(f) == CHOOSE m \in {f[i] : i \in DOMAIN f} : \A i \in DOMAIN f : f[i] >= m

\* coverage_width * coverage_length: the bounding box of the landing points.
BoundingArea(pts) ==
    (SeqMax([i \in DOMAIN pts |-> pts[i].x]) - SeqMin([i \in DOMAIN pts |-> pts[i].x]))
      * (SeqMax([i \in DOMAIN pts |-> pts[i].y]) - SeqMin([i \in DOMAIN pts |-> pts[i].y]))

\* The quotient a / b (0 <= a < b) as a float, kept to three decimals.
Permille(a, b) == Rat(a \div Max(b \div 1000, 1), 1000)

\* min(coverage_area / total_road_area, 1.0) with coverage_area = 0.7 * box,
\* or 0.0 without road area.
CoverageRatio(box, total_road_area) ==
    IF total_road_area > 0
    THEN (IF box * 7 >= 10 * total_road_area THEN ROne
          ELSE Permille(box * 7, 10 * total_road_area))
    ELSE RZero

\* The calibration override: coverage_ratio *= (1 + coverage_correction),
\* then clipped to [0, 1].
Clip01(r) == IF RLt(r, RZero) THEN RZero ELSE IF RLt(ROne, r) THEN ROne ELSE r

ApplyCoverageCorrection(ratio, params) ==
    IF params # None /\ "coverage_correction" \in DOMAIN params[1]
    THEN Clip01(RMul(ratio, RAdd(ROne, params[1].coverage_correction)))
    ELSE ratio

\* The dictionary predict returns for the landing points pts.
NsPrediction(pts, box, total_road_area, v0, env, params) ==
    [landing_points      |-> pts,
     coverage_ratio      |-> ApplyCoverageCorrection(
                                 CoverageRatio(box, total_road_area), params),
     total_coverage_area |-> Rat(box * 7, 10),
     total_road_area     |-> total_road_area,
     spray_velocity      |-> v0,
     wind_effect         |-> [speed |-> env.wind_speed,
                              direction |-> env.wind_direction]]

NsPredictionOf(pts, total_road_area, v0, env, params) ==
    NsPrediction(pts, BoundingArea(pts), total_road_area, v0, env, params)

\* The index of the first device whose spray velocity raises, or 0.
RECURSIVE FirstRaising(_, _)
FirstRaising(devices, k) ==
    IF k > Len(devices) THEN 0
    ELSE IF SprayVelocityRaises(SprayDeviceParams(devices[k].properties).pump_pressure)
    THEN k
    ELSE FirstRaising(devices, k + 1)

\* predict with at least one spray device.  A device whose velocity raises
\* ends the call before its droplet sizes are drawn.
NsSpray(spray_devices, road_segments, env, params, g) ==
    IF FirstRaising(spray_devices, 1) > 0
    THEN [raised |-> TRUE,
          np_random |-> RngAdvance(g, n_droplets * (FirstRaising(spray_devices, 1) - 1)),
          prediction |-> None]
    ELSE [raised |-> FALSE,
          np_random |-> RngAdvance(g, n_droplets * Len(spray_devices)),
          prediction |-> NsPredictionOf(
              LandingPoints(spray_devices, env, g), RoadArea(road_segments),
              compute_spray_velocity(SprayDeviceParams(
                  spray_devices[Len(spray_devices)].properties).pump_pressure),
              env, params)]

\* NavierStokesEngine.predict, the module-level generator being in state g.
\* Returns whether the call raised, the prediction, and the generator state
\* the call leaves.
ns_predict(assets, env, params, g) ==
    IF AssetsOfType(assets, "spray_device") = <<>>
    THEN [raised |-> FALSE, np_random |-> g,
          prediction |-> [landing_points |-> <<>>, coverage_ratio |-> RZero,
                          total_coverage_area |-> RZero]]
    ELSE NsSpray(AssetsOfType(assets, "spray_device"),
                 AssetsOfType(assets, "road_segment"), env, params, g)

\* NavierStokesEngine.compute_safety_factor: coverage_ratio / required.
ns_safety_factor(prediction) ==
    RDiv(Get(prediction, "coverage_ratio", RZero), KDS_MIN_BRINE_COVERAGE)

(***************************************************************************)
(* Grid-coverage engine (SprayCoverageEngine)                              *)
(***************************************************************************)
\* SprayCoverageEngine(grid_resolution = 1.0), as the tests construct it (cm).
grid_resolution == 100

\* {**d, **e}
Merge(d, e) ==
    [k \in (DOMAIN d) \cup (DOMAIN e) |-> IF k \in DOMAIN e THEN e[k] ELSE d[k]]

RECURSIVE TotalLength(_)
TotalLength(roads) ==
    IF roads = <<>> THEN 0
    ELSE Get(Head(roads).properties, "length", 1000) + TotalLength(Tail(roads))

TotalWidth(roads) ==
    SeqMax([i \in DOMAIN roads |-> Get(roads[i].properties, "width", 700)])

\* The cells within the splash distance of cell <<ix, iy>>, cut to the grid.
CellsAround(ix, iy, splash_cells, nx, ny) ==
    {c \in ((ix - splash_cells)..(ix + splash_cells))
             \X ((iy - splash_cells)..(iy + splash_cells)) :
        0 <= c[1] /\ c[1] < nx /\ 0 <= c[2] /\ c[2] < ny}

\* The cells marked for a landing point.
SplashCells(pt, total_length, total_width, nx, ny) ==
    CellsAround(TruncDiv(2 * pt.x + total_length, 2 * grid_resolution),
                TruncDiv(2 * pt.y + total_width, 2 * grid_resolution),
                Max(TruncDiv(5, grid_resolution), 1), nx, ny)

\* The cells of grid that are True after the loop over the landing points.
GridCells(landing_points, total_length, total_width, nx, ny) ==
    UNION {SplashCells(landing_points[i], total_length, total_width, nx, ny) :
             i \in DOMAIN landing_points}

GridCoverage(covered_cells, total_cells) ==
    IF total_cells > 0 THEN Rat(covered_cells, total_cells) ELSE RZero

GridFields(covered_cells, nx, ny) ==
    [grid_coverage  |-> GridCoverage(covered_cells, nx * ny),
     grid_size      |-> <<nx, ny>>,
     covered_cells  |-> covered_cells,
     total_cells    |-> nx * ny,
     coverage_ratio |-> GridCoverage(covered_cells, nx * ny)]

GridSized(landing_points, total_length, total_width, nx, ny) ==
    GridFields(Cardinality(GridCells(landing_points, total_length, total_width, nx, ny)),
               nx, ny)

GridOver(landing_points, total_length, total_width) ==
    GridSized(landing_points, total_length, total_width,
              Max(TruncDiv(total_length, grid_resolution), 1),
              Max(TruncDiv(total_width, grid_resolution), 1))

\* The grid analysis of a trajectory prediction ns_result.
GridResult(ns_result, road_segments) ==
    IF road_segments = <<>>
    THEN Merge(ns_result, [grid_coverage |-> RZero, grid_size |-> <<0, 0>>])
    ELSE Merge(ns_result, GridOver(Get(ns_result, "landing_points", <<>>),
                                   TotalLength(road_segments),
                                   TotalWidth(road_segments)))

GridCall(ns, road_segments) ==
    IF ns.raised THEN ns
    ELSE [ns EXCEPT !.prediction = GridResult(ns.prediction, road_segments)]

\* SprayCoverageEngine.predict, the module-level generator being in state g.
grid_predict(assets, env, params, g) ==
    GridCall(ns_predict(assets, env, params, g), AssetsOfType(assets, "road_segment"))

\* SprayCoverageEngine.compute_safety_factor: grid_coverage / required.
grid_safety_factor(prediction) ==
    RDiv(Get(prediction, "grid_coverage", Get(prediction, "coverage_ratio", RZero)),
         KDS_MIN_BRINE_COVERAGE)

(***************************************************************************)
(* MonteCarloEngine.run: the statistics of the safety factors              *)
(***************************************************************************)
RECURSIVE SumInt(_)
SumInt(s) == IF s = <<>> THEN 0 ELSE Head(s) + SumInt(Tail(s))

Lcm(a, b) == (a \div Gcd(a, b)) * b

RECURSIVE CommonDenominator(_)
CommonDenominator(s) ==
    IF s = <<>> THEN 1 ELSE Lcm(Head(s)[2], CommonDenominator(Tail(s)))

\* np.mean(sf_array)
Mean(sf_array) == RDiv(RSum(sf_array), RInt(Len(sf_array)))

\* The scale at which the square root below is taken, kept within the
\* integer range.
StdScale(m) == IF m <= 200000 THEN 100 ELSE IF m <= 20000000 THEN 10 ELSE 1

\* np.std(sf_array): the population standard deviation
\* sqrt(mean(x^2) - mean(x)^2) = sqrt(N * sum(a^2) - sum(a)^2) / (N * D) for
\* x = a / D, rounded down to 1/1000.
Std(sf_array) ==
    LET n  == Len(sf_array)
        D  == CommonDenominator(sf_array)
        a  == [i \in 1..n |-> sf_array[i][1] * (D \div sf_array[i][2])]
        m  == n * SumInt([i \in 1..n |-> a[i] * a[i]]) - SumInt(a) * SumInt(a)
        sc == StdScale(m)
    IN  Rat((ISqrt(m * sc * sc) * 1000) \div (sc * n * D), 1000)

\* Mutant: a safety factor of exactly 1.0 counted as a failure.
IsFailureInclusive(sf) == RLe(sf, ROne)

\* sf_array < 1.0, element by element.
IsFailure(sf) == RLt(sf, ROne)

\* np.mean(sf_array < 1.0): the mean of the comparison's 0/1 values.
FailureProbability(sf_array) ==
    Mean([i \in 1..Len(sf_array) |-> IF IsFailure(sf_array[i]) THEN ROne ELSE RZero])

RECURSIVE Insert(_, _)
Insert(x, s) ==
    IF s = <<>> THEN <<x>>
    ELSE IF RLe(x, Head(s)) THEN <<x>> \o s
    ELSE <<Head(s)>> \o Insert(x, Tail(s))

RECURSIVE Sorted(_)
Sorted(s) == IF s = <<>> THEN <<>> ELSE Insert(Head(s), Sorted(Tail(s)))

\* np.percentile(sf_array, q): linear interpolation between the order
\* statistics around position (N - 1) * q / 100.
Percentile(sf_array, q) ==
    LET srt == Sorted(sf_array)
        n   == Len(srt)
        lo  == ((n - 1) * q) \div 100
        hi  == Min(lo + 1, n - 1)
        fr  == Rat(((n - 1) * q) % 100, 100)
    IN  RAdd(srt[lo + 1], RMul(fr, RSub(srt[hi + 1], srt[lo + 1])))

\* np.min and np.max raise ValueError on an empty array; np.mean and np.std
\* of an empty array only warn, so the first statement of run to raise for
\* an empty sample list is the result's "min_sf" entry.
StatsRaise(safety_factors) == Len(safety_factors) = 0

\* The dictionary run returns (for a non-empty sample list).
RunResult(safety_factors, n) ==
    LET mean_sf == Mean(safety_factors)
        std_sf  == Std(safety_factors)
    IN  [safety_factors      |-> safety_factors,
         mean_sf             |-> mean_sf,
         std_sf              |-> std_sf,
         failure_probability |-> FailureProbability(safety_factors),
         ucl_95              |-> RAdd(mean_sf, RMul(Rat(196, 100), std_sf)),
         n_samples           |-> n,
         min_sf              |-> Sorted(safety_factors)[1],
         max_sf              |-> Sorted(safety_factors)[Len(safety_factors)],
         percentile_5        |-> Percentile(safety_factors, 5),
         percentile_95       |-> Percentile(safety_factors, 95)]

(***************************************************************************)
(* Judge.decide: the classification                                        *)
(***************************************************************************)
FAIL_PROBABILITY_THRESHOLD   == Rat(20, 100)
FAIL_SAFETY_FACTOR_THRESHOLD == ROne
PASS_SAFETY_FACTOR_TARGET    == Rat(3, 2)

\* Mutant: the probability threshold compared strictly.
FailsByProbabilityStrict(pf) == RLt(FAIL_PROBABILITY_THRESHOLD, pf)

\* pf >= FAIL_PROBABILITY_THRESHOLD
FailsByProbability(pf) == RLe(FAIL_PROBABILITY_THRESHOLD, pf)

\* The if / elif / else of decide.
Classify(pf, mean_sf, ucl_95, safety_factor_target) ==
    IF FailsByProbability(pf) \/ RLt(mean_sf, FAIL_SAFETY_FACTOR_THRESHOLD)
    THEN "FAIL"
    ELSE IF \/ RLt(mean_sf, safety_factor_target)
            \/ RLt(RMul(safety_factor_target, Rat(3, 2)), ucl_95)
    THEN "WARNING"
    ELSE "PASS"

\* The DecisionResult decide returns for a Monte Carlo result.  The reasoning
\* text is kept by the branch that wrote it.
DecisionResult(mc_result, safety_factor_target, n) ==
    LET verdict == Classify(mc_result.failure_probability, mc_result.mean_sf,
                            mc_result.ucl_95, safety_factor_target)
    IN  [verdict              |-> verdict,
         failure_probability  |-> mc_result.failure_probability,
         mean_safety_factor   |-> mc_result.mean_sf,
         safety_factor_target |-> safety_factor_target,
         ucl_95               |-> mc_result.ucl_95,
         monte_carlo_n        |-> n,
         details              |-> [std_sf        |-> mc_result.std_sf,
                                   min_sf        |-> mc_result.min_sf,
                                   max_sf        |-> mc_result.max_sf,
                                   percentile_5  |-> mc_result.percentile_5,
                                   percentile_95 |-> mc_result.percentile_95],
         reasoning            |-> verdict]

(***************************************************************************)
(* The engines MonteCarloEngine drives                                     *)
(***************************************************************************)
\* "stub" is a PhysicsEngine subclass of unspecified physics without internal
\* randomness: what predict followed by compute_safety_factor does for given
\* inputs is fixed the first time the inputs are seen and recorded in
\* engine_table.  An outcome is None when either call raises, else the safety
\* factor returned; both calls sit in the same try block of run.
StubOutcomes == {None, Some(Rat(1, 2)), Some(ROne), Some(RInt(2))}

Known(table, key)  == \E p \in table : p.key = key
Lookup(table, key) == (CHOOSE p \in table : p.key = key).outcome

\* predict followed by compute_safety_factor on a spray engine, the
\* module-level generator being in state g.
EngineCall(engine, assets, env, params, g) ==
    LET p == IF engine = "grid" THEN grid_predict(assets, env, params, g)
             ELSE ns_predict(assets, env, params, g)
    IN  [outcome   |-> IF p.raised THEN None
                       ELSE IF engine = "grid"
                       THEN Some(grid_safety_factor(p.prediction))
                       ELSE Some(ns_safety_factor(p.prediction)),
         np_random |-> p.np_random]

\* Mutant: a raising sample is passed over, nothing is recorded for it.
RecordSampleSkipRaised(safety_factors, outcome) ==
    IF outcome = None THEN safety_factors ELSE Append(safety_factors, outcome[1])

\* The body of run's loop after the engine calls: try ... append(sf),
\* except Exception: append(0.0).
RecordSample(safety_factors, outcome) ==
    IF outcome = None THEN Append(safety_factors, RZero)
    ELSE Append(safety_factors, outcome[1])

(***************************************************************************)
(* Inputs                                                                  *)
(***************************************************************************)
\* The largest n_samples a Judge is constructed with (the default is 1000).
MaxSamples == 5

\* The sample counts of the two-invocation scenarios.
ReproSampleCounts == {1, 2}

Engines == {"stub", "ns", "grid"}

\* tests/conftest.py sample_environment, and a calm day at the clipping
\* bounds of the sampler (tenths of the unit).
FixtureEnvironment ==
    [temperature |-> -50, humidity |-> 700, wind_speed |-> 40,
     wind_direction |-> 2700, precipitation |-> 20, solar_radiation |-> 1000,
     road_surface_temp |-> None]

CalmEnvironment ==
    [temperature |-> 20, humidity |-> 950, wind_speed |-> 0,
     wind_direction |-> 0, precipitation |-> 0, solar_radiation |-> 0,
     road_surface_temp |-> None]

BaseEnvs == {FixtureEnvironment, CalmEnvironment}

Seeds       == {Some(42), None}
EntropyPool == {1, 2}
Targets     == {ROne, PASS_SAFETY_FACTOR_TARGET}

\* tests/conftest.py sample_road_segment and sample_spray_device (the
\* properties the engines read), the device also with a negative pressure.
Road ==
    [type |-> "road_segment", properties |-> [length |-> 10000, width |-> 700]]

Device(pump_pressure) ==
    [type |-> "spray_device",
     properties |-> [nozzle_diameter |-> 3000, spray_angle |-> 60,
                     pump_pressure |-> pump_pressure, mounting_height |-> 30,
                     orientation |-> 0]]

FixtureAssets == <<Road, Device(300000)>>

AssetSets == {FixtureAssets, <<Device(300000)>>, <<Road, Device(-1)>>}

ParamSets == {None, Some([coverage_correction |-> Rat(1, 10)])}

GeneratorStates == {1, 2}

(***************************************************************************)
(* Judge.decide as a process: entry, one step per sample, the statistics   *)
(* and the classification.                                                 *)
(***************************************************************************)
IdleRun ==
    [pc |-> "idle", environment |-> None, seed |-> None, sampled_envs |-> <<>>,
     outcomes |-> <<>>, safety_factors |-> <<>>, mc_result |-> None,
     decision |-> None, np_random_at_entry |-> 0]

OthersIdle == CalIdle /\ DriftIdle /\ RuleIdle /\ AppIdle

InitRuns(ids) ==
    /\ engine_table = {}
    /\ runs = [r \in ids |-> IdleRun]

Init ==
    /\ OthersIdle
    /\ physics_engine \in Engines
    /\ n_samples \in 0..MaxSamples
    /\ run_assets \in (IF physics_engine = "stub" THEN {FixtureAssets} ELSE AssetSets)
    /\ run_params \in (IF physics_engine = "stub" THEN {None} ELSE ParamSets)
    /\ np_random \in (IF physics_engine = "stub" THEN {1} ELSE GeneratorStates)
    /\ InitRuns({1})

\* Two invocations on one MonteCarloEngine, as test_reproducible_with_seed
\* makes them.
InitRepro ==
    /\ OthersIdle
    /\ physics_engine \in {"stub", "grid"}
    /\ n_samples \in ReproSampleCounts
    /\ run_assets = FixtureAssets
    /\ run_params = None
    /\ np_random \in (IF physics_engine = "stub" THEN {1} ELSE GeneratorStates)
    /\ InitRuns({1, 2})

\* decide is entered: run draws the sampled environments from a generator of
\* its own.  np_random_at_entry remembers the state the module-level generator
\* is in at that moment.
Decide(r) ==
    /\ runs[r].pc = "idle"
    /\ \E environment \in BaseEnvs, seed \in Seeds, entropy \in EntropyPool :
          runs' = [runs EXCEPT ![r] =
                     [@ EXCEPT !.pc = "loop",
                               !.environment = Some(environment),
                               !.seed = seed,
                               !.np_random_at_entry = np_random,
                               !.sampled_envs =
                                   sample_environment(environment, seed, entropy, n_samples)]]
    /\ UNCHANGED <<calVars, driftVars, ruleVars, appVars, physics_engine, n_samples,
                   run_assets, run_params, np_random, engine_table>>

Recorded(r, outcome) ==
    [runs EXCEPT ![r] =
        [@ EXCEPT !.outcomes = Append(@, outcome),
                  !.safety_factors = RecordSample(@, outcome)]]

\* One iteration of run's loop.
Sample(r) ==
    /\ runs[r].pc = "loop"
    /\ Len(runs[r].outcomes) < n_samples
    /\ LET env == runs[r].sampled_envs[Len(runs[r].outcomes) + 1]
           key == <<run_assets, env, run_params>>
       IN  IF physics_engine = "stub"
           THEN /\ \E o \in (IF Known(engine_table, key)
                             THEN {Lookup(engine_table, key)} ELSE StubOutcomes) :
                      /\ engine_table' = engine_table \cup {[key |-> key, outcome |-> o]}
                      /\ runs' = Recorded(r, o)
                /\ UNCHANGED np_random
           ELSE LET c == EngineCall(physics_engine, run_assets, env, run_params, np_random)
                IN  /\ runs' = Recorded(r, c.outcome)
                    /\ np_random' = c.np_random
                    /\ UNCHANGED engine_table
    /\ UNCHANGED <<calVars, driftVars, ruleVars, appVars, physics_engine, n_samples,
                   run_assets, run_params>>

\* After the loop: the statistics, then the classification.  The target is an
\* argument of decide that is first read here.
Finish(r) ==
    /\ runs[r].pc = "loop"
    /\ Len(runs[r].outcomes) = n_samples
    /\ IF StatsRaise(runs[r].safety_factors)
       THEN runs' = [runs EXCEPT ![r].pc = "raised"]
       ELSE \E safety_factor_target \in Targets :
              LET mc_result == RunResult(runs[r].safety_factors, n_samples)
              IN  runs' = [runs EXCEPT ![r] =
                             [@ EXCEPT !.pc = "done",
                                       !.mc_result = Some(mc_result),
                                       !.decision = Some(DecisionResult(
                                           mc_result, safety_factor_target, n_samples))]]
    /\ UNCHANGED <<calVars, driftVars, ruleVars, appVars, physics_engine, n_samples,
                   run_assets, run_params, np_random, engine_table>>

Next ==
    \/ \E r \in DOMAIN runs : Decide(r)
    \/ \E r \in DOMAIN runs : Sample(r)
    \/ \E r \in DOMAIN runs : Finish(r)

Spec == Init /\ [][Next]_vars

SpecRepro == InitRepro /\ [][Next]_vars

(***************************************************************************)
(* Properties of Judge.decide and MonteCarloEngine.run                     *)
(***************************************************************************)
Done(r) == runs[r].pc = "done"

\* C1: decide classifies in strict order from the statistics run returned:
\* FAIL exactly when failure_probability >= 0.20 or mean_sf < 1.0; otherwise
\* WARNING exactly when mean_sf < target or ucl_95 > 1.5 * target; otherwise
\* PASS.  A failure probability of exactly 0.20 gives FAIL; a mean of exactly
\* 1.0 with a failure probability below 0.20 does not.
C1_VerdictFromStatistics ==
    \A r \in DOMAIN runs :
        runs[r].decision # None =>
            LET d    == runs[r].decision[1]
                m    == runs[r].mc_result[1]
                pf   == m.failure_probability
                fail == RLe(Rat(1, 5), pf) \/ RLt(m.mean_sf, ROne)
                warn == \/ RLt(m.mean_sf, d.safety_factor_target)
                        \/ RLt(RMul(d.safety_factor_target, Rat(3, 2)), m.ucl_95)
            IN  /\ d.failure_probability = pf
                /\ d.mean_safety_factor = m.mean_sf
                /\ d.ucl_95 = m.ucl_95
                /\ d.verdict \in {"FAIL", "WARNING", "PASS"}
                /\ (d.verdict = "FAIL") <=> fail
                /\ (d.verdict = "WARNING") <=> (~fail /\ warn)
                /\ (d.verdict = "PASS") <=> (~fail /\ ~warn)
                /\ (pf = Rat(1, 5) => d.verdict = "FAIL")
                /\ (m.mean_sf = ROne /\ RLt(pf, Rat(1, 5)) => d.verdict # "FAIL")

\* A decision of FAIL taken on the probability boundary alone: exactly one
\* sample in five failed and the mean is not below 1.0.
C1_Witness ==
    \E r \in DOMAIN runs :
        /\ runs[r].decision # None
        /\ runs[r].decision[1].verdict = "FAIL"
        /\ runs[r].decision[1].failure_probability = Rat(1, 5)
        /\ ~RLt(runs[r].decision[1].mean_safety_factor, ROne)

\* C2: a sample on which the engine raised is recorded as 0.0 and the loop
\* goes on; a sample on which it did not raise keeps the safety factor the
\* engine returned; a run in which samples raised is never aborted, and what
\* it returns holds the recorded values.
C2_RaisedSampleRecordedAsZero ==
    \A r \in DOMAIN runs :
        LET o  == runs[r].outcomes
            sf == runs[r].safety_factors
        IN  /\ Len(sf) = Len(o)
            /\ \A i \in 1..Len(o) :
                  sf[i] = IF o[i] = None THEN RZero ELSE o[i][1]
            /\ (\E i \in 1..Len(o) : o[i] = None) =>
                  /\ runs[r].pc \in {"loop", "done"}
                  /\ Done(r) => /\ Len(o) = n_samples
                                /\ runs[r].mc_result[1].safety_factors = sf

\* A finished run in which an early sample raised and a later one did not.
C2_Witness ==
    \E r \in DOMAIN runs :
        /\ Done(r)
        /\ \E i, j \in 1..Len(runs[r].outcomes) :
              /\ i < j
              /\ runs[r].outcomes[i] = None
              /\ runs[r].outcomes[j] # None
              /\ runs[r].mc_result[1].safety_factors[i] = RZero
              /\ runs[r].mc_result[1].safety_factors[j] = runs[r].outcomes[j][1]
              /\ runs[r].mc_result[1].safety_factors[j] # RZero

\* C3: for every sample count N, run returns a result whose safety_factors
\* has length N and whose n_samples is N.
C3_ResultHasNSamples ==
    \A r \in DOMAIN runs :
        runs[r].pc \in {"done", "raised"} =>
            /\ runs[r].mc_result # None
            /\ Len(runs[r].mc_result[1].safety_factors) = n_samples
            /\ runs[r].mc_result[1].n_samples = n_samples

\* C4: the failure probability run returns, and decide carries into its
\* result, is the number of samples with safety factor < 1.0 divided by the
\* number of samples, and lies in [0, 1].
C4_FailureProbabilityIsFraction ==
    \A r \in DOMAIN runs :
        runs[r].mc_result # None =>
            LET m  == runs[r].mc_result[1]
                sf == m.safety_factors
                k  == Cardinality({i \in 1..Len(sf) : RLt(sf[i], ROne)})
            IN  /\ m.failure_probability = Rat(k, m.n_samples)
                /\ RLe(RZero, m.failure_probability)
                /\ RLe(m.failure_probability, ROne)
                /\ runs[r].decision[1].failure_probability = m.failure_probability

\* A result with failing and passing samples, one of them exactly 1.0.
C4_Witness ==
    \E r \in DOMAIN runs :
        /\ runs[r].mc_result # None
        /\ RLt(RZero, runs[r].mc_result[1].failure_probability)
        /\ RLt(runs[r].mc_result[1].failure_probability, ROne)
        /\ \E i \in 1..Len(runs[r].mc_result[1].safety_factors) :
              runs[r].mc_result[1].safety_factors[i] = ROne

SameInputs(r1, r2) ==
    /\ runs[r1].seed # None
    /\ runs[r1].seed = runs[r2].seed
    /\ runs[r1].environment = runs[r2].environment

\* C5: with an engine without internal randomness, two invocations of run
\* with the same assets, environment, params and seed return the same
\* mean_sf, std_sf and failure_probability, whatever the other invocation
\* did in between.
C5_SameSeedSameStatistics ==
    physics_engine = "stub" =>
        \A r1, r2 \in DOMAIN runs :
            (Done(r1) /\ Done(r2) /\ SameInputs(r1, r2)) =>
                /\ runs[r1].mc_result[1].mean_sf = runs[r2].mc_result[1].mean_sf
                /\ runs[r1].mc_result[1].std_sf = runs[r2].mc_result[1].std_sf
                /\ runs[r1].mc_result[1].failure_probability
                     = runs[r2].mc_result[1].failure_probability

\* Two finished invocations with the same seed and environment whose samples
\* did not all come out alike.
C5_Witness ==
    /\ physics_engine = "stub"
    /\ \E r1, r2 \in DOMAIN runs :
          /\ r1 # r2
          /\ Done(r1) /\ Done(r2) /\ SameInputs(r1, r2)
          /\ RLt(RZero, runs[r1].mc_result[1].std_sf)
          /\ runs[r1].mc_result[1].std_sf = runs[r2].mc_result[1].std_sf

\* C6: with the grid-coverage engine, two invocations of run on the same
\* assets and environment with the same seed return equal mean_sf.
C6_GridSameSeedSameMean ==
    physics_engine = "grid" =>
        \A r1, r2 \in DOMAIN runs :
            (Done(r1) /\ Done(r2) /\ SameInputs(r1, r2)) =>
                runs[r1].mc_result[1].mean_sf = runs[r2].mc_result[1].mean_sf

(***************************************************************************)
(* DriftDetector.compute_drift                                             *)
(***************************************************************************)
PipelineIdle == CalIdle /\ DriftIdle /\ RuleIdle /\ McIdle

\* What a call did: it returned `value`, or it raised.
Returned(value) == [raised |-> FALSE, value |-> value]
Raised == [raised |-> TRUE, value |-> RZero]

\* Mutant: every parameter that has a reading is compared, also a zero-valued
\* one.
ComparableWithZero(physics_params, sensor) ==
    DOMAIN physics_params \cap DOMAIN sensor

\* `if param_name in sensor_data and predicted_value != 0`
Comparable(physics_params, sensor) ==
    {p \in DOMAIN physics_params : p \in DOMAIN sensor /\ physics_params[p] # RZero}

\* drift = abs(actual_value - predicted_value) / abs(predicted_value) * 100;
\* a float division by zero raises ZeroDivisionError.
ParamDrift(predicted_value, actual_value) ==
    IF predicted_value = RZero
    THEN Raised
    ELSE Returned(RMul(RDiv(RAbs(RSub(actual_value, predicted_value)),
                            RAbs(predicted_value)),
                       RInt(100)))

\* The loop of compute_drift over the compared parameters `names`.
MeanDrift(physics_params, sensor, names) ==
    LET drifts == [i \in 1..Len(names) |->
                     ParamDrift(physics_params[names[i]], sensor[names[i]])]
        count  == Len(names)
    IN  IF \E i \in 1..count : drifts[i].raised
        THEN Raised
        ELSE IF count > 0
             THEN Returned(RDiv(RSum([i \in 1..count |-> drifts[i].value]),
                                RInt(count)))
             ELSE Returned(RZero)

\* DriftDetector.compute_drift(physics_params, sensor_data)
compute_drift(physics_params, sensor) ==
    IF sensor = <<>> \/ physics_params = <<>>
    THEN Returned(RZero)
    ELSE MeanDrift(physics_params, sensor,
                   SetToSeq(Comparable(physics_params, sensor)))

InitComputeDrift ==
    /\ learning_rate = ROne
    /\ current_params \in Dicts(ParamNames, ParamValues)
    /\ sensor_data \in Dicts(SensorNames, SensorValues)
    /\ cal_result = None
    /\ computed_drift = None
    /\ DriftIdle /\ RuleIdle /\ McIdle /\ ServiceIdle /\ SimIdle /\ FnIdle

\* One call DriftDetector().compute_drift(current_params, sensor_data).
ComputeDrift ==
    /\ computed_drift = None
    /\ computed_drift' = Some(compute_drift(current_params, sensor_data))
    /\ UNCHANGED <<pipelineVars, svcVars, simVars, fnVars>>

NextComputeDrift == ComputeDrift

SpecComputeDrift == InitComputeDrift /\ [][NextComputeDrift]_vars

\* The parameters named in both mappings whose physics value is not zero.
InBothNonZero ==
    {p \in DOMAIN current_params \cap DOMAIN sensor_data : current_params[p][1] # 0}

\* |a - p| / |p| * 100 for a = an/ad and p = pn/pd, as one fraction.
RelativeErrorPct(p, a) ==
    Rat(100 * AbsInt(a[1] * p[2] - p[1] * a[2]), a[2] * AbsInt(p[1]))

RECURSIVE SumOfErrors(_)
SumOfErrors(S) ==
    IF S = {} THEN RZero
    ELSE LET x == CHOOSE y \in S : TRUE
         IN  RAdd(RelativeErrorPct(current_params[x], sensor_data[x]),
                  SumOfErrors(S \ {x}))

KeptEntries == 100

\* {"drift_pct": drift_pct, "at": datetime.now(timezone.utc).isoformat()}
Entry(drift_pct, at) == [drift_pct |-> drift_pct, at |-> at]

\* Mutant: the oldest entries are kept.
KeepOldest(history) ==
    SubSeq(history, 1, IF Len(history) < KeptEntries THEN Len(history) ELSE KeptEntries)

\* history[-100:]
KeepLatest(history) == SliceFrom(history, -KeptEntries)

\* The positions of the rows `where(CalibrationState.asset_id == asset_id)`.
RowsOf(table, asset_id) == {i \in 1..Len(table) : table[i].asset_id = asset_id}

\* Mutant: asset_id carries no unique constraint.
NotUnique(table, asset_id) == FALSE

\* asset_id = Column(..., unique=True): inserting a second row of the asset
\* violates the constraint.
UniqueViolation(table, asset_id) == RowsOf(table, asset_id) # {}

\* CalibrationState(asset_id=..., ..., calibration_count=1, status=status)
NewState(id, asset_id, physics_params, drift_pct, status, at) ==
    [id                |-> id,
     asset_id          |-> asset_id,
     physics_params    |-> physics_params,
     drift_history     |-> <<Entry(drift_pct, at)>>,
     calibration_count |-> 1,
     status            |-> status]

\* Mutant: the update leaves calibration_count as loaded.
UpdatedStateSameCount(state, physics_params, drift_pct, status, at) ==
    [state EXCEPT !.physics_params = physics_params,
                  !.drift_history  = KeepLatest(Append(state.drift_history,
                                                       Entry(drift_pct, at))),
                  !.status         = status]

\* The else branch of create_or_update_calibration on the loaded `state`.
UpdatedState(state, physics_params, drift_pct, status, at) ==
    LET history == Append(state.drift_history, Entry(drift_pct, at))
    IN  [state EXCEPT !.physics_params    = physics_params,
                      !.drift_history     = KeepLatest(history),
                      !.calibration_count = state.calibration_count + 1,
                      !.status            = status]

\* Bounds and inputs of the calibration-service specifications.
MaxCalls == 3

TheAsset   == "asset-1"
OtherAsset == "asset-2"
CallParams == {[friction |-> RInt(4)]}
CallDrifts == {RInt(DRIFT_THRESHOLD_PCT - 2), RInt(DRIFT_THRESHOLD_PCT + 2)}
\* The statuses the repository passes: the default and trigger_calibration's.
CallStatuses == {"calibrated"}

\* The asset's row after n sequential calls that each reported `drift`, the
\* k-th at logical time k (n is at most KeptEntries).
RowAfter(id, n, drift) ==
    [id                |-> id,
     asset_id          |-> TheAsset,
     physics_params    |-> [friction |-> RInt(4)],
     drift_history     |-> [k \in 1..n |-> Entry(drift, k)],
     calibration_count |-> n,
     status            |-> "calibrated"]

OtherRow == NewState(1, OtherAsset, [friction |-> RInt(4)], RZero, "calibrated", 1)

PriorCalls == {0, 1, KeptEntries - 1, KeptEntries}
PriorDrift == RInt(DRIFT_THRESHOLD_PCT + 1)

IdleSession == [pc |-> "idle", args |-> None, state |-> None, trigger |-> None]

InitSessions(ids) ==
    /\ \E n \in PriorCalls :
         /\ calibration_states =
              IF n = 0 THEN <<OtherRow>> ELSE <<OtherRow, RowAfter(2, n, PriorDrift)>>
         /\ appended = [k \in 1..n |-> Entry(PriorDrift, k)]
    /\ sessions = [s \in ids |-> IdleSession]
    /\ calls = 0
    /\ response = None
    /\ PipelineIdle /\ ComputeDriftIdle /\ SimIdle /\ FnIdle

InitService == InitSessions({1})

InitConcurrent == InitSessions({1, 2})

\* A caller invokes create_or_update_calibration(db, asset_id, physics_params,
\* drift_pct, status) in request s.
Call(s) ==
    /\ sessions[s].pc = "idle"
    /\ calls < MaxCalls
    /\ \E physics_params \in CallParams, drift_pct \in CallDrifts, status \in CallStatuses :
         sessions' = [sessions EXCEPT ![s] =
             [pc |-> "called",
              args |-> Some([physics_params |-> physics_params,
                             drift_pct |-> drift_pct, status |-> status]),
              state |-> None, trigger |-> None]]
    /\ calls' = calls + 1
    /\ UNCHANGED <<calibration_states, appended, response, pipelineVars, cdVars, simVars, fnVars>>

\* result.scalar_one_or_none() over the rows found.
ScalarOneOrNone(table, found) ==
    IF found = {} THEN None ELSE Some(table[CHOOSE i \in found : TRUE])

\* `state = await get_calibration_state(db, asset_id)` of
\* create_or_update_calibration: the request reads the committed row.
SelectState(s) ==
    /\ sessions[s].pc = "called"
    /\ LET found == RowsOf(calibration_states, TheAsset)
       IN  IF Cardinality(found) > 1
           THEN \* MultipleResultsFound
                /\ sessions' = [sessions EXCEPT ![s] = IdleSession]
                /\ response' = Some([op |-> "create_or_update_calibration",
                                     status |-> "MultipleResultsFound"])
           ELSE /\ sessions' = [sessions EXCEPT ![s] =
                        [@ EXCEPT !.pc = "selected",
                                  !.state = ScalarOneOrNone(calibration_states, found)]]
                /\ UNCHANGED response
    /\ UNCHANGED <<calibration_states, appended, calls, pipelineVars, cdVars, simVars, fnVars>>

\* What trigger_calibration returns once its create_or_update_calibration
\* call is through, or the state itself for a direct call.
Answer(me) ==
    IF me.trigger = None
    THEN Some([op |-> "create_or_update_calibration", status |-> "returned"])
    ELSE me.trigger

\* The rest of create_or_update_calibration from `if state is None` to
\* `await db.flush()`, and the commit of the session that ends the request.
WriteState(s) ==
    /\ sessions[s].pc = "selected"
    /\ LET me   == sessions[s]
           args == me.args[1]
           at   == Len(appended) + 1
       IN  IF me.state = None
           THEN IF UniqueViolation(calibration_states, TheAsset)
                THEN \* IntegrityError at flush: the session rolls back
                     /\ response' = Some([op |-> "create_or_update_calibration",
                                          status |-> "IntegrityError"])
                     /\ UNCHANGED <<calibration_states, appended>>
                ELSE /\ calibration_states' =
                          Append(calibration_states,
                                 NewState(Len(calibration_states) + 1, TheAsset,
                                          args.physics_params, args.drift_pct,
                                          args.status, at))
                     /\ appended' = Append(appended, Entry(args.drift_pct, at))
                     /\ response' = Answer(me)
           ELSE /\ calibration_states' =
                     [calibration_states EXCEPT ![me.state[1].id] =
                         UpdatedState(me.state[1], args.physics_params,
                                      args.drift_pct, args.status, at)]
                /\ appended' = Append(appended, Entry(args.drift_pct, at))
                /\ response' = Answer(me)
    /\ sessions' = [sessions EXCEPT ![s] = IdleSession]
    /\ UNCHANGED <<calls, pipelineVars, cdVars, simVars, fnVars>>

\* Calibrator(): learning_rate defaults to 0.1.
DefaultLearningRate == Rat(1, 10)

\* trigger_calibration(db, asset_id) in request s, up to its return or to its
\* call of create_or_update_calibration.
Trigger(s) ==
    /\ sessions[s].pc = "idle"
    /\ calls < MaxCalls
    /\ calls' = calls + 1
    /\ LET state == ScalarOneOrNone(calibration_states, RowsOf(calibration_states, TheAsset))
           params == IF state # None THEN state[1].physics_params ELSE <<>>
           drift  == compute_drift(params, <<>>)
           result == calibrate(DefaultLearningRate, params, <<>>).result
       IN  IF drift.raised
           THEN /\ response' = Some([op |-> "trigger_calibration", status |-> "raised",
                                     drift_percentage |-> RZero])
                /\ UNCHANGED sessions
           ELSE IF RLt(RInt(5), drift.value)
           THEN /\ sessions' = [sessions EXCEPT ![s] =
                        [pc |-> "called",
                         args |-> Some([physics_params |-> result.new_physics_params,
                                        drift_pct |-> drift.value,
                                        status |-> "calibrated"]),
                         state |-> None,
                         trigger |-> Some([op |-> "trigger_calibration",
                                           status |-> "recalibrated",
                                           drift_percentage |-> drift.value])]]
                /\ UNCHANGED response
           ELSE /\ response' = Some([op |-> "trigger_calibration", status |-> "ok",
                                     drift_percentage |-> drift.value])
                /\ UNCHANGED sessions
    /\ UNCHANGED <<calibration_states, appended, pipelineVars, cdVars, simVars, fnVars>>

NextService ==
    \/ \E s \in DOMAIN sessions : Call(s)
    \/ \E s \in DOMAIN sessions : SelectState(s)
    \/ \E s \in DOMAIN sessions : WriteState(s)
    \/ \E s \in DOMAIN sessions : Trigger(s)

\* One request at a time.
SpecService == InitService /\ [][NextService]_vars

\* Two requests whose steps interleave.
SpecConcurrent == InitConcurrent /\ [][NextService]_vars

\* The stored rows of the asset, and its row when there is exactly one.
Stored == RowsOf(calibration_states, TheAsset)
StoredRow == calibration_states[CHOOSE i \in Stored : TRUE]

NoCallInProgress == \A s \in DOMAIN sessions : sessions[s].pc = "idle"

LatestAppended ==
    {appended[i] : i \in {j \in 1..Len(appended) : j > Len(appended) - KeptEntries}}

\* C13: concurrent calibration attempts on the same asset exclude each other,
\* so that no update is lost: once two attempts have both completed, both
\* their entries are in drift_history and calibration_count has grown by two
\* (it counts every completed attempt).
C13_NoLostUpdate ==
    (NoCallInProgress /\ Stored # {}) =>
        /\ StoredRow.calibration_count = Len(appended)
        /\ \A e \in LatestAppended :
             \E i \in 1..Len(StoredRow.drift_history) : StoredRow.drift_history[i] = e

\* C14: at most one CalibrationState row exists per asset id, also when two
\* first-time attempts on the asset interleave.
C14_AtMostOneStatePerAsset == Cardinality(Stored) <= 1

C14_Witness ==
    /\ Cardinality(Stored) = 1
    /\ response # None
    /\ response[1].status = "IntegrityError"

\* The event loop runs every request that is ready: a request that has been
\* made is carried through, and requests keep being made up to the bound.
SpecServiceLive == SpecService /\ WF_vars(NextService)

\* The stored history of the asset shows drift above DRIFT_THRESHOLD_PCT for
\* DRIFT_SUSTAINED_MINUTES entries in a row.
SustainedDriftStored ==
    /\ Stored # {}
    /\ should_recalibrate(RInt(DRIFT_THRESHOLD_PCT), DRIFT_SUSTAINED_MINUTES,
                          StoredRow.drift_history)

\* C15: an asset's status moves uncalibrated -> calibrated, calibrated ->
\* drifting on sustained drift, drifting -> calibrated; status "drifting" is
\* reached when sustained drift is detected.
C15_DriftingOnSustainedDrift ==
    SustainedDriftStored ~> (Stored # {} /\ StoredRow.status = "drifting")

\* C16: recalibration is triggered when and only when drift has exceeded 5%
\* for the sustained window: trigger_calibration answers "recalibrated" (and
\* rewrites physics_params) exactly then, and answers "ok" otherwise.
C16_RecalibratedIffSustainedDrift ==
    (response # None /\ response[1].op = "trigger_calibration") =>
        (response[1].status = "recalibrated" <=> SustainedDriftStored)

(***************************************************************************)
(* Simulation requests: the API handler trigger_simulation                 *)
(* (backend/app/simulation/router.py, service.py), the CLI command run     *)
(* (src/cli.py), the engine entry run_full_simulation                      *)
(* (backend/engine/spray_simulation.py) and the climate preset lookups.    *)
(***************************************************************************)
\* The keys of KOREA_CLIMATE_PRESETS (src/layers/gis_reality.py) and of
\* CLIMATE_PRESETS (engine/environment/climate.py).
KOREA_CLIMATE_PRESETS ==
    {"seoul_winter_night", "seoul_winter_dawn", "gangwon_winter_night",
     "busan_winter_morning", "daejeon_winter_dawn"}

CLIMATE_PRESETS ==
    {"gangwon_winter_severe", "gangwon_winter_moderate", "seoul_winter",
     "gyeongbu_expressway_winter", "yeongdong_expressway_winter", "busan_winter",
     "spring_transition", "night_clear_sky"}

\* The default key of build_environment, cmd_run and SimulateRequest.
DefaultPreset == "gangwon_winter_night"

\* The values of enum RoadType.
RoadTypes ==
    {"straight", "curve", "bridge", "overpass", "underpass", "ramp", "intersection"}

\* How a lookup ends: with the preset of a key, with None, or with sys.exit.
Found(name) == [kind |-> "preset", name |-> name]
Absent == [kind |-> "none", name |-> ""]
Exited == [kind |-> "exit", name |-> ""]

\* How a call ends: normally, or with an exception.
Success == [raised |-> FALSE, error |-> ""]
Failure(error) == [raised |-> TRUE, error |-> error]

\* Mutant: a collection is never taken to be empty.
MissingNever(items) == FALSE

\* `not project.road_segments`, `not project.spray_devices`
Missing(items) == items = <<>>

\* build_engine_project: RoadType(r.road_type) raises ValueError for a string
\* that is no value of the enum.
build_engine_project(p) ==
    IF \E i \in 1..Len(p.road_segments) : p.road_segments[i].road_type \notin RoadTypes
    THEN Failure("ValueError: not a valid RoadType")
    ELSE Success

\* build_environment: the key whose preset the environment is built from.
build_environment(key) ==
    IF key \notin KOREA_CLIMATE_PRESETS THEN DefaultPreset ELSE key

\* run_full_simulation: the two checks, then the coverage computation over
\* project.road_segments[0].  `computed` counts the computations started.
run_full_simulation(p) ==
    IF Missing(p.road_segments)
    THEN [outcome |-> Failure("ValueError: road segments required"), computed |-> 0]
    ELSE IF Missing(p.spray_devices)
    THEN [outcome |-> Failure("ValueError: spray devices required"), computed |-> 0]
    ELSE IF p.road_segments = <<>>
    THEN [outcome |-> Failure("IndexError: list index out of range"), computed |-> 0]
    ELSE [outcome |-> Success, computed |-> 1]

\* The try block of trigger_simulation: build_engine_project,
\* build_environment, run_simulation_sync.
Execute(p) ==
    IF build_engine_project(p).raised
    THEN [outcome |-> build_engine_project(p), computed |-> 0]
    ELSE run_full_simulation(p)

HttpResponse(status_code, detail) == [status_code |-> status_code, detail |-> detail]

\* SimulationRun(..., status="completed", ...)
CompletedRun(key) == [status |-> "completed", climate_preset |-> key, error |-> ""]

\* trigger_simulation(project_id, req): the response, the rows added to
\* simulation_runs, the computations started and whether the preset was
\* looked up.
trigger_simulation(p, key) ==
    IF p = None
    THEN [response |-> HttpResponse(404, "Project not found"),
          runs |-> <<>>, computed |-> 0, looked_up |-> FALSE]
    ELSE IF Missing(p[1].road_segments)
    THEN [response |-> HttpResponse(400, "No road segments defined"),
          runs |-> <<>>, computed |-> 0, looked_up |-> FALSE]
    ELSE IF Missing(p[1].spray_devices)
    THEN [response |-> HttpResponse(400, "No spray devices defined"),
          runs |-> <<>>, computed |-> 0, looked_up |-> FALSE]
    ELSE IF Execute(p[1]).outcome.raised
    THEN [response |-> HttpResponse(500, "Simulation failed"),
          runs |-> <<>>, computed |-> Execute(p[1]).computed,
          looked_up |-> ~build_engine_project(p[1]).raised]
    ELSE [response |-> HttpResponse(201, ""),
          runs |-> <<CompletedRun(key)>>, computed |-> Execute(p[1]).computed,
          looked_up |-> TRUE]

\* get_preset(name) of engine/environment/climate.py
get_preset(name) == IF name \in CLIMATE_PRESETS THEN Found(name) ELSE Absent

\* The preset selection of cmd_run: `args.climate or "gangwon_winter_night"`,
\* then sys.exit(1) for a key that is not in the table.
CliPreset(key) ==
    LET preset_key == IF key = "" THEN DefaultPreset ELSE key
    IN  IF preset_key \notin KOREA_CLIMATE_PRESETS THEN Exited ELSE Found(preset_key)

Lookup3(path, key, outcome) == Some([path |-> path, key |-> key, outcome |-> outcome])

\* cmd_run(args): the project file, the preset, run_full_simulation, report.
cmd_run(p, key) ==
    IF p = None
    THEN [exit |-> 1, error |-> "File not found", report |-> FALSE,
          computed |-> 0, looked_up |-> FALSE]
    ELSE IF build_engine_project(p[1]).raised
    THEN [exit |-> 1, error |-> build_engine_project(p[1]).error, report |-> FALSE,
          computed |-> 0, looked_up |-> FALSE]
    ELSE IF CliPreset(key) = Exited
    THEN [exit |-> 1, error |-> "Unknown climate preset", report |-> FALSE,
          computed |-> 0, looked_up |-> TRUE]
    ELSE IF run_full_simulation(p[1]).outcome.raised
    THEN [exit |-> 1, error |-> run_full_simulation(p[1]).outcome.error,
          report |-> FALSE, computed |-> run_full_simulation(p[1]).computed,
          looked_up |-> TRUE]
    ELSE [exit |-> 0, error |-> "", report |-> TRUE,
          computed |-> run_full_simulation(p[1]).computed, looked_up |-> TRUE]

\* Bounds and inputs of the simulation specification.
MaxRequests == 2

RoadLists ==
    {<<>>, <<[road_type |-> "straight"]>>, <<[road_type |-> "motorway"]>>,
     <<[road_type |-> "curve"], [road_type |-> "bridge"]>>}
DeviceLists == {<<>>, <<[device_id |-> "SD-1"]>>}
Projects ==
    {None} \cup {Some([road_segments |-> r, spray_devices |-> d]) :
                    r \in RoadLists, d \in DeviceLists}
PresetKeys ==
    {"", DefaultPreset, "seoul_winter_night", "gangwon_winter_severe", "no_such_preset"}

InitSim ==
    /\ project \in Projects
    /\ climate_preset \in PresetKeys
    /\ simulation_runs = <<>>
    /\ http_response = None
    /\ cli_result = None
    /\ preset_lookup = None
    /\ coverage_computations = 0
    /\ requests_made = 0
    /\ PipelineIdle /\ ComputeDriftIdle /\ ServiceIdle /\ FnIdle

\* One request POST /api/projects/{project_id}/simulate.
TriggerSimulation ==
    /\ requests_made < MaxRequests
    /\ requests_made' = requests_made + 1
    /\ LET out == trigger_simulation(project, climate_preset)
       IN  /\ http_response' = Some(out.response)
           /\ simulation_runs' = simulation_runs \o out.runs
           /\ coverage_computations' = coverage_computations + out.computed
           /\ preset_lookup' =
                IF out.looked_up
                THEN Lookup3("build_environment", climate_preset,
                             Found(build_environment(climate_preset)))
                ELSE preset_lookup
    /\ UNCHANGED <<project, climate_preset, cli_result, pipelineVars, cdVars, svcVars, fnVars>>

\* One run of the CLI command `run` on the project's file.
CmdRun ==
    /\ requests_made < MaxRequests
    /\ requests_made' = requests_made + 1
    /\ LET out == cmd_run(project, climate_preset)
       IN  /\ cli_result' = Some([exit |-> out.exit, error |-> out.error,
                                  report |-> out.report])
           /\ coverage_computations' = coverage_computations + out.computed
           /\ preset_lookup' =
                IF out.looked_up
                THEN Lookup3("cmd_run", climate_preset, CliPreset(climate_preset))
                ELSE preset_lookup
    /\ UNCHANGED <<project, climate_preset, simulation_runs, http_response,
                   pipelineVars, cdVars, svcVars, fnVars>>

\* One call get_preset(climate_preset).
GetPreset ==
    /\ requests_made < MaxRequests
    /\ requests_made' = requests_made + 1
    /\ preset_lookup' = Lookup3("get_preset", climate_preset, get_preset(climate_preset))
    /\ UNCHANGED <<project, climate_preset, simulation_runs, http_response, cli_result,
                   coverage_computations, pipelineVars, cdVars, svcVars, fnVars>>

NextSim == TriggerSimulation \/ CmdRun \/ GetPreset

SpecSim == InitSim /\ [][NextSim]_vars

\* The project has no road segment or no spray device.
NothingToSimulate ==
    /\ project # None
    /\ (project[1].road_segments = <<>> \/ project[1].spray_devices = <<>>)

\* C17: a simulation requested for a project with zero road segments or zero
\* spray devices fails fast with a descriptive error before any coverage
\* computation, and produces no simulation result or verdict.
C17_NothingToSimulateFailsFast ==
    NothingToSimulate =>
        /\ coverage_computations = 0
        /\ simulation_runs = <<>>
        /\ http_response # None =>
             /\ http_response[1].status_code = 400
             /\ http_response[1].detail =
                  (IF project[1].road_segments = <<>>
                   THEN "No road segments defined" ELSE "No spray devices defined")
        /\ cli_result # None =>
             /\ cli_result[1].exit # 0
             /\ ~cli_result[1].report
             /\ cli_result[1].error \in {"ValueError: road segments required",
                                         "ValueError: spray devices required",
                                         "ValueError: not a valid RoadType",
                                         "Unknown climate preset"}

C17_Witness ==
    /\ NothingToSimulate
    /\ project[1].road_segments # <<>>
    /\ http_response # None
    /\ cli_result # None
    /\ cli_result[1].error = "ValueError: spray devices required"

\* The keys the table of a lookup path holds.
TableOf(path) == IF path = "get_preset" THEN CLIMATE_PRESETS ELSE KOREA_CLIMATE_PRESETS

\* C18: looking up a climate preset by a key that is not in the preset table
\* never fails: on every lookup path it yields the default preset, not an
\* error or an absent value.
C18_UnknownPresetYieldsDefault ==
    (preset_lookup # None /\ preset_lookup[1].key \notin TableOf(preset_lookup[1].path)) =>
        preset_lookup[1].outcome = Found(DefaultPreset)

\* C19: when an exception occurs during simulation execution the run record
\* is set to status failed with the error captured (and the run is not
\* retried); a record with status completed exists only for executions that
\* finished without an exception.
C19_FailedRunIsRecorded ==
    /\ (http_response # None /\ http_response[1].status_code = 500) =>
          \E i \in 1..Len(simulation_runs) :
              simulation_runs[i].status = "failed" /\ simulation_runs[i].error # ""
    /\ (project # None /\ ~NothingToSimulate /\ Execute(project[1]).outcome.raised) =>
          \A i \in 1..Len(simulation_runs) : simulation_runs[i].status # "completed"

(***************************************************************************)
(* Concurrent invocations of the decision pipeline                         *)
(***************************************************************************)
\* The safety factors run collects for the sampled environments envs when no
\* other invocation runs beside it: the spray engines draw from the
\* module-level generator, in state g at the first sample; the deterministic
\* engine answers as engine_table records.
RECURSIVE AloneFactors(_, _, _)
AloneFactors(envs, g, factors) ==
    IF envs = <<>> THEN factors
    ELSE IF physics_engine = "stub"
    THEN AloneFactors(Tail(envs), g,
             RecordSample(factors,
                          Lookup(engine_table, <<run_assets, Head(envs), run_params>>)))
    ELSE AloneFactors(Tail(envs),
             EngineCall(physics_engine, run_assets, Head(envs), run_params, g).np_random,
             RecordSample(factors,
                 EngineCall(physics_engine, run_assets, Head(envs), run_params, g).outcome))

\* C20: the pipeline holds no mutable state shared between concurrent
\* invocations: when two Monte Carlo runs execute concurrently, under any
\* interleaving, each run's result equals the result it produces when it runs
\* alone.
C20_ResultAsWhenRunAlone ==
    \A r \in DOMAIN runs :
        Done(r) =>
            runs[r].mc_result[1] =
                RunResult(AloneFactors(runs[r].sampled_envs, runs[r].np_random_at_entry,
                                       <<>>),
                          n_samples)

(***************************************************************************)
(* Functions called on their own: `arguments` holds the inputs of the one  *)
(* call, `returned` what it gave back.                                     *)
(***************************************************************************)
OthersThanFnIdle == PipelineIdle /\ ComputeDriftIdle /\ ServiceIdle /\ SimIdle
othersThanFn == <<pipelineVars, cdVars, svcVars, simVars>>

(***************************************************************************)
(* MonteCarloEngine._sample_environment                                    *)
(***************************************************************************)
RoadSurfaceTemps == {None, Some(-30), Some(50)}

SampleBases ==
    {[b EXCEPT !.road_surface_temp = t] : b \in BaseEnvs, t \in RoadSurfaceTemps}

InitSample ==
    /\ \E base \in SampleBases, seed \in Seeds, entropy \in EntropyPool, n \in 0..MaxSamples :
          arguments = Some([base |-> base, seed |-> seed, entropy |-> entropy, n |-> n])
    /\ returned = None
    /\ OthersThanFnIdle

\* One call MonteCarloEngine(engine, n)._sample_environment(base, seed).
SampleEnvironment ==
    /\ returned = None
    /\ returned' = Some(sample_environment(arguments[1].base, arguments[1].seed,
                                           arguments[1].entropy, arguments[1].n))
    /\ UNCHANGED <<arguments, othersThanFn>>

NextSample == SampleEnvironment

SpecSample == InitSample /\ [][NextSample]_vars

ShortRoad(length) ==
    [type |-> "road_segment", properties |-> [length |-> length, width |-> 700]]

PredictAssets ==
    {FixtureAssets, <<Device(300000)>>, <<Road, Device(-1)>>,
     <<ShortRoad(100), Device(300000)>>, <<ShortRoad(1), Device(300000)>>}

PredictParams ==
    {None, Some([coverage_correction |-> Rat(1, 10)]),
     Some([coverage_correction |-> Rat(-1, 2)]),
     Some([wind_correction |-> Rat(1, 10)])}

InitPredict ==
    /\ \E assets \in PredictAssets, env \in BaseEnvs, params \in PredictParams,
          g \in GeneratorStates :
          arguments = Some([assets |-> assets, environment |-> env,
                            params |-> params, np_random |-> g])
    /\ returned = None
    /\ OthersThanFnIdle

Predict ==
    /\ returned = None
    /\ returned' = Some(ns_predict(arguments[1].assets, arguments[1].environment,
                                   arguments[1].params, arguments[1].np_random))
    /\ UNCHANGED <<arguments, othersThanFn>>

NextPredict == Predict

SpecPredict == InitPredict /\ [][NextPredict]_vars

\* The ratio predict computes before the override is applied.
ComputedRatio ==
    CoverageRatio(
        BoundingArea(LandingPoints(AssetsOfType(arguments[1].assets, "spray_device"),
                                   arguments[1].environment, arguments[1].np_random)),
        RoadArea(AssetsOfType(arguments[1].assets, "road_segment")))

Overridden ==
    /\ arguments[1].params # None
    /\ "coverage_correction" \in DOMAIN arguments[1].params[1]

\* C26: with a coverage_correction parameter predict returns the computed
\* ratio plus the correction, clipped to [0, 1]; without it predict returns
\* the computed ratio, which lies within [0, 1].
C26_CorrectionIsAdditive ==
    (returned # None /\ ~returned[1].raised
       /\ AssetsOfType(arguments[1].assets, "spray_device") # <<>>)
    => /\ RLe(RZero, returned[1].prediction.coverage_ratio)
       /\ RLe(returned[1].prediction.coverage_ratio, ROne)
       /\ returned[1].prediction.coverage_ratio =
             IF Overridden
             THEN Clip01(RAdd(ComputedRatio,
                              arguments[1].params[1].coverage_correction))
             ELSE ComputedRatio


(***************************************************************************)
(* Calibrator.calibrate: the direction of one step                         *)
(***************************************************************************)
\* C27: one calibrate step with a learning rate in (0, 1] leaves every
\* corrected parameter, positive or negative, no further from its sensor
\* value than it was: |sensor - new| <= |sensor - current|.
C27_StepNotAwayFromSensor ==
    (cal_result # None /\ RLt(RZero, learning_rate) /\ RLe(learning_rate, ROne))
    => \A p \in DOMAIN cal_result[1].corrections_applied :
          RLe(RAbs(RSub(sensor_data[p], cal_result[1].new_physics_params[p])),
              RAbs(RSub(sensor_data[p], current_params[p])))


(***************************************************************************)
(* create_or_update_calibration: the counter and the history per call      *)
(***************************************************************************)
CountOf(table) ==
    IF RowsOf(table, TheAsset) = {} THEN 0
    ELSE table[CHOOSE i \in RowsOf(table, TheAsset) : TRUE].calibration_count

HistoryOf(table) ==
    IF RowsOf(table, TheAsset) = {} THEN <<>>
    ELSE table[CHOOSE i \in RowsOf(table, TheAsset) : TRUE].drift_history

RaisedSamples(r) == {i \in 1..Len(runs[r].outcomes) : runs[r].outcomes[i] = None}

\* C29: a sample on which the engine raised counts as a failure: when the
\* engine raised on at least 20% of the N samples of a run, decide returns
\* FAIL, whatever the safety factors of the other samples are.
C29_RaisedSamplesFailTheRun ==
    \A r \in DOMAIN runs :
        (/\ runs[r].pc \notin {"idle", "loop"}
         /\ RaisedSamples(r) # {}
         /\ 5 * Cardinality(RaisedSamples(r)) >= n_samples)
        => /\ Done(r)
           /\ runs[r].decision[1].verdict = "FAIL"

\* One sample of five raised, the four others are far above the target.
C29_Witness ==
    \E r \in DOMAIN runs :
        /\ Done(r)
        /\ n_samples = 5
        /\ Cardinality(RaisedSamples(r)) = 1
        /\ \A i \in 1..5 : i \notin RaisedSamples(r) => runs[r].outcomes[i] = Some(RInt(2))
        /\ RLe(PASS_SAFETY_FACTOR_TARGET, runs[r].mc_result[1].mean_sf)
        /\ runs[r].decision[1].verdict = "FAIL"


(***************************************************************************)
(* Rule engine: evaluate and its seven checks                              *)
(* (src/judgment/rule_engine.py).  Strings that are searched are sequences *)
(* of characters; lengths are in mm, cm or tenths of a metre as noted.     *)
(***************************************************************************)
\* MIN_COVERAGE_RATIO = 0.80, MAX_UNCOVERED_GAP_M = 10.0 (in tenths of a
\* metre) and MIN_UTILITY_CLEARANCE_MM = 300.0.
MIN_COVERAGE_RATIO == Rat(80, 100)
MAX_UNCOVERED_GAP_M == 100
MIN_UTILITY_CLEARANCE_MM == 300

UpperCase == <<"A", "B", "C", "D", "E", "F", "G", "H", "I", "J", "K", "L", "M",
               "N", "O", "P", "Q", "R", "S", "T", "U", "V", "W", "X", "Y", "Z">>
LowerCase == <<"a", "b", "c", "d", "e", "f", "g", "h", "i", "j", "k", "l", "m",
               "n", "o", "p", "q", "r", "s", "t", "u", "v", "w", "x", "y", "z">>

\* str.lower()
str_lower(str) ==
    [i \in 1..Len(str) |->
        IF \E k \in DOMAIN UpperCase : UpperCase[k] = str[i]
        THEN LowerCase[CHOOSE k \in DOMAIN UpperCase : UpperCase[k] = str[i]]
        ELSE str[i]]

\* key in str
str_contains(str, key) ==
    \E i \in 0..(Len(str) - Len(key)) : SubSeq(str, i + 1, i + Len(key)) = key

\* FROST_DEPTH_LIMITS in the order of the dictionary (mm).
FROST_DEPTH_LIMITS ==
    << [key |-> <<"s", "e", "o", "u", "l">>,   limit |-> 600],
       [key |-> <<"g", "a", "n", "g", "w", "o", "n">>, limit |-> 900],
       [key |-> <<"b", "u", "s", "a", "n">>,   limit |-> 300],
       [key |-> <<"d", "a", "e", "j", "e", "o", "n">>, limit |-> 500],
       [key |-> <<"d", "e", "f", "a", "u", "l", "t">>, limit |-> 600] >>

\* The loop `for key in FROST_DEPTH_LIMITS: if key in loc_lower: ... break`
\* from position k on; region stays "default" when no key matches.
RECURSIVE FrostRegion(_, _)
FrostRegion(loc_lower, k) ==
    IF k > Len(FROST_DEPTH_LIMITS) THEN Len(FROST_DEPTH_LIMITS)
    ELSE IF str_contains(loc_lower, FROST_DEPTH_LIMITS[k].key) THEN k
    ELSE FrostRegion(loc_lower, k + 1)

FrostDepth(location_name) ==
    FROST_DEPTH_LIMITS[FrostRegion(str_lower(location_name), 1)].limit

\* FailureObservation(rule_id, severity, recommendation); subject is the
\* device, zone, utility pair or road the evidence names.
Observation(rule_id, severity, subject, recommendation) ==
    [rule_id |-> rule_id, severity |-> severity, subject |-> subject,
     recommendation |-> recommendation]

\* Mutant: the second branch is an `if` of its own.
check_coverage_no_elif(sim) ==
    (IF RLt(sim.coverage_ratio, Rat(1, 2))
     THEN <<Observation("COV-001", "critical", "", "add devices")>> ELSE <<>>)
    \o (IF RLt(sim.coverage_ratio, MIN_COVERAGE_RATIO)
        THEN <<Observation("COV-002", "warning", "", "adjust positions")>> ELSE <<>>)

\* _check_coverage
check_coverage(sim) ==
    IF RLt(sim.coverage_ratio, Rat(1, 2))
    THEN <<Observation("COV-001", "critical", "", "add devices")>>
    ELSE IF RLt(sim.coverage_ratio, MIN_COVERAGE_RATIO)
    THEN <<Observation("COV-002", "warning", "", "adjust positions")>>
    ELSE <<>>

\* _check_uncovered_gaps: zones are (start, end) in tenths of a metre.
RECURSIVE check_uncovered_gaps(_)
check_uncovered_gaps(zones) ==
    IF zones = <<>> THEN <<>>
    ELSE LET gap == Head(zones)[2] - Head(zones)[1]
         IN  (IF gap > MAX_UNCOVERED_GAP_M
              THEN <<Observation("GAP-001", "critical", Head(zones), "add a device")>>
              ELSE IF 10 * gap > MAX_UNCOVERED_GAP_M * 7
              THEN <<Observation("GAP-002", "warning", Head(zones), "review spacing")>>
              ELSE <<>>)
             \o check_uncovered_gaps(Tail(zones))

\* _check_wind_drift: abs(drift_offset_m) > effective_range_m * 0.3.
RECURSIVE check_wind_drift(_)
check_wind_drift(device_results) ==
    IF device_results = <<>> THEN <<>>
    ELSE (IF 10 * AbsInt(Head(device_results).drift_offset) >
               3 * Head(device_results).effective_range
          THEN <<Observation("WIND-001", "warning", Head(device_results).device_id,
                             "wind cover")>>
          ELSE <<>>)
         \o check_wind_drift(Tail(device_results))

\* Mutant: a depth equal to the frost depth counts as shallower.
IsShallowInclusive(burial_depth_mm, frost_depth) ==
    burial_depth_mm > 0 /\ burial_depth_mm <= frost_depth

\* device.burial_depth_mm > 0 and device.burial_depth_mm < frost_depth
IsShallow(burial_depth_mm, frost_depth) ==
    burial_depth_mm > 0 /\ burial_depth_mm < frost_depth

RECURSIVE FrostDevices(_, _)
FrostDevices(devices, frost_depth) ==
    IF devices = <<>> THEN <<>>
    ELSE (IF IsShallow(Head(devices).burial_depth_mm, frost_depth)
          THEN <<Observation("FROST-001", "critical", Head(devices).device_id,
                             "bury deeper or add heating")>>
          ELSE <<>>)
         \o FrostDevices(Tail(devices), frost_depth)

\* _check_frost_risk: the devices, then the supply pipe.
check_frost_risk(p, location_name) ==
    FrostDevices(p.spray_devices, FrostDepth(location_name))
    \o (IF /\ p.supply_system # None
           /\ p.supply_system[1].pipe_burial_depth_mm < FrostDepth(location_name)
           /\ ~p.supply_system[1].has_heating
        THEN <<Observation("FROST-002", "critical", "pipe", "heat or insulate the pipe")>>
        ELSE <<>>)

\* min(cross_dist * 1000, depth_dist) in mm.
Clearance(device, util) ==
    Min(AbsInt(device.position_cross_mm - util.position_cross_mm),
        AbsInt(device.burial_depth_mm - util.depth_mm))

RECURSIVE UtilityConflicts(_, _)
UtilityConflicts(device, utils) ==
    IF utils = <<>> THEN <<>>
    ELSE (IF Clearance(device, Head(utils)) < MIN_UTILITY_CLEARANCE_MM
          THEN <<Observation("UTIL-001", "critical",
                             <<device.device_id, Head(utils).utility_id>>,
                             "move the device")>>
          ELSE <<>>)
         \o UtilityConflicts(device, Tail(utils))

\* _check_utility_conflict: surface devices (depth 0) are passed over.
RECURSIVE check_utility_conflict(_, _)
check_utility_conflict(devices, utils) ==
    IF devices = <<>> THEN <<>>
    ELSE (IF Head(devices).burial_depth_mm = 0 THEN <<>>
          ELSE UtilityConflicts(Head(devices), utils))
         \o check_utility_conflict(Tail(devices), utils)

\* _check_supply_capacity: runtime_hours = tank / consumption_lph < 2.0.
check_supply_capacity(p, sim) ==
    IF p.supply_system = None
    THEN <<Observation("SUP-001", "warning", "", "enter supply spec")>>
    ELSE IF /\ sim.total_brine_consumption_lph > 0
            /\ p.supply_system[1].tank_capacity_l < 2 * sim.total_brine_consumption_lph
    THEN <<Observation("SUP-002", "warning", "", "larger tank")>>
    ELSE <<>>

\* _check_slope_effectiveness: abs(slope_percent) > 5.0, in tenths of a percent.
RECURSIVE check_slope_effectiveness(_)
check_slope_effectiveness(roads) ==
    IF roads = <<>> THEN <<>>
    ELSE (IF AbsInt(Head(roads).slope_percent) > 50
          THEN <<Observation("SLOPE-001", "warning", Head(roads).segment_id,
                             "spray downhill")>>
          ELSE <<>>)
         \o check_slope_effectiveness(Tail(roads))

\* The observations evaluate collects, in the order of its seven checks.
Failures(p, location_name, sim) ==
    check_coverage(sim)
      \o check_uncovered_gaps(sim.uncovered_zones)
      \o check_wind_drift(sim.device_results)
      \o check_frost_risk(p, location_name)
      \o check_utility_conflict(p.spray_devices, p.underground_utilities)
      \o check_supply_capacity(p, sim)
      \o check_slope_effectiveness(p.road_segments)

\* evaluate(project, env, sim_result)
evaluate(p, location_name, sim) == make_verdict(Failures(p, location_name, sim))

\* Inputs of evaluate.
SprayDevice(device_id, burial_depth_mm) ==
    [device_id |-> device_id, burial_depth_mm |-> burial_depth_mm,
     position_cross_mm |-> 0]

EvalDeviceLists ==
    { <<>>,
      <<SprayDevice("SPR-001", 0)>>,
      <<SprayDevice("SPR-001", 400)>>,
      <<SprayDevice("SPR-001", 700), SprayDevice("SPR-002", 400)>>,
      <<SprayDevice("SPR-001", 600), SprayDevice("SPR-002", 900)>>,
      <<SprayDevice("SPR-001", 1200), SprayDevice("SPR-002", 300)>> }

EvalLocations ==
    { <<"T", "e", "s", "t", " ", "R", "o", "a", "d">>,
      <<"G", "a", "n", "g", "w", "o", "n", "-", "d", "o", " ", "P", "a", "s", "s">>,
      <<"S", "E", "O", "U", "L", " ", "R", "i", "n", "g">>,
      <<"B", "u", "s", "a", "n", "-", "S", "e", "o", "u", "l">>,
      <<"d", "a", "e", "j", "e", "o", "n">>,
      <<"B", "u", "s", "a", "n", " ", "P", "o", "r", "t">> }

EvalCoverage == {RZero, Rat(49, 100), Rat(1, 2), Rat(79, 100), Rat(4, 5), ROne}

HeatedSupply ==
    [tank_capacity_l |-> 5000, pipe_burial_depth_mm |-> 700, has_heating |-> TRUE]

BareSupply ==
    [tank_capacity_l |-> 1000, pipe_burial_depth_mm |-> 500, has_heating |-> FALSE]

EvalSupply == {None, Some(HeatedSupply), Some(BareSupply)}

\* The inputs of the checks other than coverage and frost: nothing to
\* report, warnings only, and critical findings.
QuietSite ==
    [road_segments |-> <<[segment_id |-> "R1", slope_percent |-> 0]>>,
     underground_utilities |-> <<>>,
     uncovered_zones |-> <<>>, device_results |-> <<>>,
     total_brine_consumption_lph |-> 0]

WindySite ==
    [road_segments |-> <<[segment_id |-> "R1", slope_percent |-> -60]>>,
     underground_utilities |-> <<>>,
     uncovered_zones |-> <<<<0, 80>>>>,
     device_results |-> <<[device_id |-> "SPR-001", drift_offset |-> -250,
                           effective_range |-> 800]>>,
     total_brine_consumption_lph |-> 600]

CrowdedSite ==
    [road_segments |-> <<[segment_id |-> "R1", slope_percent |-> 50]>>,
     underground_utilities |-> <<[utility_id |-> "GAS-1", depth_mm |-> 800,
                                  position_cross_mm |-> 100]>>,
     uncovered_zones |-> <<<<0, 70>>, <<100, 220>>>>,
     device_results |-> <<[device_id |-> "SPR-001", drift_offset |-> 240,
                           effective_range |-> 800]>>,
     total_brine_consumption_lph |-> 600]

EvalSites == {QuietSite, WindySite, CrowdedSite}

InitEvaluate ==
    /\ \E devices \in EvalDeviceLists, location_name \in EvalLocations,
          coverage_ratio \in EvalCoverage, supply \in EvalSupply, site \in EvalSites :
          arguments = Some(
              [project |-> [spray_devices |-> devices, supply_system |-> supply,
                            road_segments |-> site.road_segments,
                            underground_utilities |-> site.underground_utilities],
               location_name |-> location_name,
               sim |-> [coverage_ratio |-> coverage_ratio,
                        uncovered_zones |-> site.uncovered_zones,
                        device_results |-> site.device_results,
                        total_brine_consumption_lph |-> site.total_brine_consumption_lph]])
    /\ returned = None
    /\ OthersThanFnIdle

Evaluate ==
    /\ returned = None
    /\ returned' = Some(evaluate(arguments[1].project, arguments[1].location_name,
                                 arguments[1].sim))
    /\ UNCHANGED <<arguments, othersThanFn>>

NextEvaluate == Evaluate

SpecEvaluate == InitEvaluate /\ [][NextEvaluate]_vars


\* The frost-depth limit of a location name: the first of seoul, gangwon,
\* busan and daejeon found in the lower-cased name, otherwise 600 mm.
RegionLimit(location_name) ==
    LET loc == str_lower(location_name)
    IN  IF str_contains(loc, <<"s", "e", "o", "u", "l">>) THEN 600
        ELSE IF str_contains(loc, <<"g", "a", "n", "g", "w", "o", "n">>) THEN 900
        ELSE IF str_contains(loc, <<"b", "u", "s", "a", "n">>) THEN 300
        ELSE IF str_contains(loc, <<"d", "a", "e", "j", "e", "o", "n">>) THEN 500
        ELSE 600

\* Whether the judgment holds a FROST-001 critical observation for a device.
FrostObserved(judgment_result, device_id) ==
    \E i \in 1..Len(judgment_result.failures) :
        /\ judgment_result.failures[i].rule_id = "FROST-001"
        /\ judgment_result.failures[i].severity = "critical"
        /\ judgment_result.failures[i].subject = device_id

\* C21 as stated: every spray device whose burial depth is below the frost
\* depth limit of the region gets a FROST-001 critical observation, and the
\* verdict is FAIL.
C21_ShallowDeviceFails ==
    returned # None =>
        \A i \in 1..Len(arguments[1].project.spray_devices) :
            LET device == arguments[1].project.spray_devices[i]
            IN  device.burial_depth_mm < RegionLimit(arguments[1].location_name)
                => /\ FrostObserved(returned[1], device.device_id)
                   /\ returned[1].verdict = "FAIL"

\* C21 amended: a spray device gets a FROST-001 critical observation exactly
\* when it is buried (burial depth above 0) at less than the frost depth limit
\* of the region, and then the verdict is FAIL; a surface device (burial
\* depth 0) gets none.
C21_BuriedShallowDeviceFails ==
    returned # None =>
        \A i \in 1..Len(arguments[1].project.spray_devices) :
            LET device == arguments[1].project.spray_devices[i]
                buried_shallow ==
                    /\ device.burial_depth_mm > 0
                    /\ device.burial_depth_mm < RegionLimit(arguments[1].location_name)
            IN  /\ FrostObserved(returned[1], device.device_id) <=> buried_shallow
                /\ buried_shallow => returned[1].verdict = "FAIL"

\* Two devices at 700 and 400 mm in a "Gangwon" location, nothing else to
\* report: both are below 900 mm.
C21_Witness ==
    /\ returned # None
    /\ str_contains(str_lower(arguments[1].location_name),
                    <<"g", "a", "n", "g", "w", "o", "n">>)
    /\ Len(arguments[1].project.spray_devices) = 2
    /\ arguments[1].project.spray_devices[2].burial_depth_mm = 400
    /\ Len(returned[1].failures) = 2
    /\ FrostObserved(returned[1], "SPR-001")
    /\ FrostObserved(returned[1], "SPR-002")
    /\ returned[1].verdict = "FAIL"


\* The observations of a judgment that carry the given rule id and severity.
ObservedAs(judgment_result, rule_id, severity) ==
    {i \in 1..Len(judgment_result.failures) :
        /\ judgment_result.failures[i].rule_id = rule_id
        /\ judgment_result.failures[i].severity = severity}

ObservedRule(judgment_result, rule_id) ==
    {i \in 1..Len(judgment_result.failures) :
        judgment_result.failures[i].rule_id = rule_id}

\* C22: the coverage rule emits exactly one critical COV-001 when the
\* coverage ratio is below 0.50, exactly one warning COV-002 when it is at
\* least 0.50 and below 0.80, and no coverage observation from 0.80 on;
\* COV-001 and COV-002 never appear together.
C22_CoverageRuleIsExclusive ==
    returned # None =>
        LET ratio == arguments[1].sim.coverage_ratio
            cov1  == Cardinality(ObservedAs(returned[1], "COV-001", "critical"))
            cov2  == Cardinality(ObservedAs(returned[1], "COV-002", "warning"))
        IN  /\ Cardinality(ObservedRule(returned[1], "COV-001")) = cov1
            /\ Cardinality(ObservedRule(returned[1], "COV-002")) = cov2
            /\ ~(cov1 > 0 /\ cov2 > 0)
            /\ RLt(ratio, Rat(1, 2)) => cov1 = 1 /\ cov2 = 0
            /\ (RLe(Rat(1, 2), ratio) /\ RLt(ratio, Rat(4, 5))) => cov1 = 0 /\ cov2 = 1
            /\ RLe(Rat(4, 5), ratio) => cov1 = 0 /\ cov2 = 0

\* A ratio of exactly 0.50 gives the warning alone and a conditional pass.
C22_Witness ==
    /\ returned # None
    /\ arguments[1].sim.coverage_ratio = Rat(1, 2)
    /\ ObservedRule(returned[1], "COV-001") = {}
    /\ ObservedRule(returned[1], "COV-002") = {1}
    /\ returned[1].verdict = "CONDITIONAL_PASS"


(***************************************************************************)
(* PhysicsImputer.impute (src/engine/calibration/imputation.py)            *)
(***************************************************************************)
\* float("nan"): the one float that is not a quotient of integers.
NaN == <<0, 0>>

\* value is None or (isinstance(value, float) and np.isnan(value)), for the
\* value d.get("value") of a record.
IsMissing(value) == value = None \/ value[1] = NaN

\* [d.get("value") for d in readings]
ValuesOf(readings) ==
    [i \in 1..Len(readings) |-> Get(readings[i], "value", None)]

\* valid_values: the values that are neither None nor NaN, in order.
RECURSIVE ValidValues(_)
ValidValues(values) ==
    IF values = <<>> THEN <<>>
    ELSE (IF IsMissing(Head(values)) THEN <<>> ELSE <<Head(values)[1]>>)
         \o ValidValues(Tail(values))

\* np.mean(valid_values) if valid_values else 0.0
MeanOrZero(valid_values) ==
    IF valid_values # <<>> THEN Mean(valid_values) ELSE RZero

\* new_entry[key] = ... for the keys of items, on a copy of the record.
SetItems(entry, items) ==
    [k \in DOMAIN entry \cup DOMAIN items |->
        IF k \in DOMAIN items THEN items[k] ELSE entry[k]]

\* The body of impute's loop for one record.  engine is None or the outcome
\* of physics_engine.predict(assets, environment): None when it raises, else
\* the prediction dictionary.
ImputeEntry(entry, engine, environment, assets, valid_values) ==
    IF IsMissing(Get(entry, "value", None))
    THEN IF engine # None /\ environment # None /\ assets # <<>>
         THEN IF engine[1] # None
              THEN SetItems(entry,
                       [value   |-> Some(Get(engine[1][1], "surface_temperature",
                                             MeanOrZero(valid_values))),
                        imputed |-> TRUE, method |-> "physics"])
              ELSE SetItems(entry,
                       [value   |-> Some(MeanOrZero(valid_values)),
                        imputed |-> TRUE, method |-> "fallback_mean"])
         ELSE SetItems(entry,
                  [value   |-> Some(MeanOrZero(valid_values)),
                   imputed |-> TRUE, method |-> "mean"])
    ELSE SetItems(entry, [imputed |-> FALSE])

\* PhysicsImputer(physics_engine).impute(readings, environment, assets):
\* the list returned and the caller's sensor_data as the call leaves it (the loop
\* writes to copies of the records).
impute(engine, readings, environment, assets) ==
    [result |->
        IF readings = <<>> THEN readings
        ELSE [i \in 1..Len(readings) |->
                 ImputeEntry(readings[i], engine, environment, assets,
                             ValidValues(ValuesOf(readings)))],
     sensor_data |-> readings]

\* Inputs of impute: up to MaxReadings records, each with a reading, with
\* None, with NaN, or without a "value" key.
MaxReadings == 3

ReadingValues == {None, Some(NaN), Some(RInt(2)), Some(RInt(5))}

Readings ==
    {[time |-> "t"]} \cup {[time |-> "t", value |-> v] : v \in ReadingValues}

SensorSeqs == UNION {[1..n -> Readings] : n \in 0..MaxReadings}

\* No engine; an engine whose predict raises; the thermal engine's
\* prediction (it carries surface_temperature); the spray engine's (it does
\* not).
ImputerEngines ==
    { None, Some(None),
      Some(Some([surface_temperature |-> RInt(-3), is_icing |-> TRUE])),
      Some(Some([coverage_ratio |-> Rat(1, 2), landing_points |-> <<>>])) }

InitImpute ==
    /\ \E engine \in ImputerEngines, readings \in SensorSeqs,
          environment \in {None, Some(FixtureEnvironment)},
          assets \in {<<>>, FixtureAssets} :
          arguments = Some([physics_engine |-> engine, sensor_data |-> readings,
                            environment |-> environment, assets |-> assets])
    /\ returned = None
    /\ OthersThanFnIdle

Impute ==
    /\ returned = None
    /\ returned' = Some(impute(arguments[1].physics_engine, arguments[1].sensor_data,
                               arguments[1].environment, arguments[1].assets))
    /\ UNCHANGED <<arguments, othersThanFn>>

NextImpute == Impute

SpecImpute == InitImpute /\ [][NextImpute]_vars

\* The engine, the environment and the assets are supplied and the
\* prediction succeeds.
PredictionSucceeds ==
    /\ arguments[1].physics_engine # None
    /\ arguments[1].environment # None
    /\ arguments[1].assets # <<>>
    /\ arguments[1].physics_engine[1] # None

\* C23: impute returns one record per input record in order; a present
\* value is kept and tagged imputed = false; a missing value (None or NaN)
\* is tagged imputed = true and replaced by the physics prediction, method
\* "physics", when engine, environment and assets are supplied and the
\* prediction succeeds, otherwise by the mean of the valid readings (0.0
\* without any), method "fallback_mean" or "mean"; the input records are
\* left as they were.
C23_ImputeTagsEveryRecord ==
    returned # None =>
        LET input  == arguments[1].sensor_data
            result == returned[1].result
            mean   == MeanOrZero(ValidValues(ValuesOf(input)))
        IN  /\ returned[1].sensor_data = input
            /\ Len(result) = Len(input)
            /\ \A i \in 1..Len(input) :
                 /\ result[i].time = input[i].time
                 /\ IF ~IsMissing(Get(input[i], "value", None))
                    THEN /\ result[i].value = input[i].value
                         /\ result[i].imputed = FALSE
                    ELSE /\ result[i].imputed = TRUE
                         /\ IF PredictionSucceeds
                            THEN /\ result[i].method = "physics"
                                 /\ "surface_temperature" \in
                                       DOMAIN arguments[1].physics_engine[1][1]
                                 /\ result[i].value = Some(arguments[1].physics_engine[1][1]
                                                               .surface_temperature)
                            ELSE /\ result[i].method \in {"fallback_mean", "mean"}
                                 /\ result[i].value = Some(mean)


(***************************************************************************)
(* The coverage simulation (backend/engine/spray_simulation.py).  Lengths  *)
(* and positions are in tenths of a metre, temperatures in tenths of a     *)
(* degree, wind speeds in tenths of a m/s; the inputs are multiples of     *)
(* 0.1 m, for which the source's round(., 4) and round(., 1) change        *)
(* nothing but the floating-point noise.                                   *)
(***************************************************************************)
\* temp_efficiency, in hundredths.
TempEfficiency(air_temperature) ==
    IF air_temperature < -100 THEN 70
    ELSE IF air_temperature < -50 THEN 85
    ELSE IF air_temperature < 0 THEN 95
    ELSE 100

\* estimate_spray_drift: wind_speed_ms * spray_range_m * 0.05.
estimate_spray_drift(wind_speed, spray_range) == (wind_speed * spray_range * 5) \div 1000

\* device.spray_range_m * temp_efficiency
EffectiveRange(device, env) ==
    (device.spray_range * TempEfficiency(env.air_temperature)) \div 100

\* drift * sin(radians(wind_direction_deg))
DriftOffset(device, env) ==
    TruncDiv(estimate_spray_drift(env.wind_speed, device.spray_range)
               * Sin1000(env.wind_direction), 1000)

\* spray_width by spray pattern: 0.5 m, effective_range * tan(angle / 2), or
\* effective_range.
SprayWidth(device, effective_range) ==
    IF device.spray_pattern = "linear" THEN 5
    ELSE IF device.spray_pattern = "fan"
    THEN TruncDiv(effective_range * Sin1000(device.spray_angle \div 2),
                  Cos1000(device.spray_angle \div 2))
    ELSE effective_range

\* _frange(start, stop, 1.0): start, start + 1 m, ... below stop.
FRange(start, stop) == {start + 10 * k : k \in 0..((stop - start - 1) \div 10)}

\* The largest distance, in mm, at which
\*   (1 - dist / effective_range) * flow_rate_lpm * 10 / max(1, dist ** 1.2)
\* is still >= MIN_EFFECTIVE_BRINE_GM2 = 20 (the amount falls with the
\* distance), for the flow rates (L/min) and effective ranges of the inputs.
CoverageReach(flow_rate, effective_range) ==
    IF flow_rate = 5
    THEN (IF effective_range = 80 THEN 1747 ELSE IF effective_range = 76 THEN 1730
          ELSE IF effective_range = 68 THEN 1690 ELSE 1615)
    ELSE (IF effective_range = 80 THEN 3901 ELSE IF effective_range = 76 THEN 3812
          ELSE IF effective_range = 68 THEN 3618 ELSE 3274)

\* is_covered for a cell at squared distance dist2 from the device.
IsCovered(dist2, flow_rate, effective_range) ==
    dist2 * 10000 <= CoverageReach(flow_rate, effective_range)
                       * CoverageReach(flow_rate, effective_range)

\* The cells of the device's grid that lie on the road and within its range.
OnRoadInRange(x, y, device_x, device_y, road, effective_range) ==
    /\ ~(x < 0 \/ x > road.length)
    /\ ~(2 * AbsInt(y) > road.width * road.lanes)
    /\ LET dist2 == (x - device_x) * (x - device_x) + (y - device_y) * (y - device_y)
       IN  ~(dist2 > effective_range * effective_range \/ dist2 < 1)

\* The positions of the covered cells of calculate_spray_coverage, the
\* device standing at (device_x, device_y) after the drift.
CoveredAround(device_x, device_y, device, road, effective_range, spray_width) ==
    {c \in FRange(device_x - effective_range, device_x + effective_range)
             \X FRange(device_y - spray_width, device_y + spray_width) :
        /\ OnRoadInRange(c[1], c[2], device_x, device_y, road, effective_range)
        /\ IsCovered((c[1] - device_x) * (c[1] - device_x)
                       + (c[2] - device_y) * (c[2] - device_y),
                     device.flow_rate, effective_range)}

\* calculate_spray_coverage(device, road, env): the covered positions.
calculate_spray_coverage(device, road, env) ==
    CoveredAround(device.position_along_road,
                  device.position_cross + DriftOffset(device, env),
                  device, road, EffectiveRange(device, env),
                  SprayWidth(device, EffectiveRange(device, env)))

\* all_covered_positions: the union over the devices.
AllCoveredPositions(devices, road, env) ==
    UNION {calculate_spray_coverage(devices[i], road, env) : i \in 1..Len(devices)}

\* covered_area / total_road_area if total_road_area > 0 else 0, with one
\* square metre per covered position.
CoverageRatioOf(covered_cells, road) ==
    IF road.length * road.width * road.lanes > 0
    THEN Rat(covered_cells * 100, road.length * road.width * road.lanes)
    ELSE RZero

\* run_full_simulation(project, env) of the engine: raises without a road
\* or without a device, else simulates the first road segment.
FullSimulation(p, env) ==
    IF p.road_segments = <<>> THEN [raised |-> "ValueError: road segment needed"]
    ELSE IF p.spray_devices = <<>> THEN [raised |-> "ValueError: spray device needed"]
    ELSE [raised |-> "",
          total_road_area |-> p.road_segments[1].length * p.road_segments[1].width
                                * p.road_segments[1].lanes,
          covered_positions |->
              AllCoveredPositions(p.spray_devices, p.road_segments[1], env),
          coverage_ratio |->
              CoverageRatioOf(
                  Cardinality(AllCoveredPositions(p.spray_devices,
                                                  p.road_segments[1], env)),
                  p.road_segments[1]),
          total_brine_consumption_lph |->
              60 * RSum([i \in 1..Len(p.spray_devices) |->
                            RInt(p.spray_devices[i].flow_rate)])[1]]

\* Inputs: a 3 m x 3 m lane and a 10 m road of two 3.5 m lanes; devices of
\* the test suite's make (range 8 m) in the three spray patterns.
SimRoads ==
    { <<>>,
      <<[length |-> 30, width |-> 30, lanes |-> 1]>>,
      <<[length |-> 100, width |-> 35, lanes |-> 2]>> }

SimPlacements ==
    { <<>>,
      << <<10, 0>> >>,
      << <<10, 0>>, <<20, 5>> >>,
      << <<15, 5>> >>,
      << <<10, 0>>, <<30, 0>>, <<50, 0>>, <<70, 0>>, <<90, 0>> >> }

SimDevice(at, spray_pattern, flow_rate) ==
    [position_along_road |-> at[1], position_cross |-> at[2],
     spray_pattern |-> spray_pattern, spray_angle |-> 90, spray_range |-> 80,
     flow_rate |-> flow_rate]

SimClimates ==
    {[air_temperature |-> t, wind_speed |-> 10, wind_direction |-> d] :
        t \in {-120, -80, -30, 0}, d \in {0, 90}}

InitFullSimulation ==
    /\ \E roads \in SimRoads, placement \in SimPlacements,
          spray_pattern \in {"linear", "fan", "full_circle"},
          flow_rate \in {5, 20}, climate \in SimClimates :
          arguments = Some(
              [project |-> [road_segments |-> roads,
                            spray_devices |->
                                [i \in 1..Len(placement) |->
                                    SimDevice(placement[i], spray_pattern, flow_rate)]],
               env |-> climate])
    /\ returned = None
    /\ OthersThanFnIdle

RunFullSimulation ==
    /\ returned = None
    /\ returned' = Some(FullSimulation(arguments[1].project, arguments[1].env))
    /\ UNCHANGED <<arguments, othersThanFn>>

NextFullSimulation == RunFullSimulation

SpecFullSimulation == InitFullSimulation /\ [][NextFullSimulation]_vars

\* C24: for every project with at least one road segment and one spray
\* device, and every environment, run_full_simulation returns a
\* coverage_ratio within [0.0, 1.0]: the covered area never exceeds the
\* road area.
C24_CoverageRatioWithinUnit ==
    (/\ returned # None
     /\ arguments[1].project.road_segments # <<>>
     /\ arguments[1].project.spray_devices # <<>>)
    => /\ returned[1].raised = ""
       /\ RLe(RZero, returned[1].coverage_ratio)
       /\ RLe(returned[1].coverage_ratio, ROne)


(***************************************************************************)
(* ThermodynamicsEngine (src/engine/physics/thermodynamics.py).            *)
(* Temperatures are exact quotients in degrees C, concentrations in %.     *)
(***************************************************************************)
FREEZING_POINT_WATER == RZero
ICE_WARNING_TEMP     == RInt(3)

\* _freezing_point_depression: -0.6 * min(brine_concentration, 23.3).
freezing_point_depression(brine_concentration) ==
    RMul(Rat(-6, 10),
         IF RLt(brine_concentration, Rat(233, 10)) THEN brine_concentration
         ELSE Rat(233, 10))

\* sum(concs) / len(concs) over the spray devices, 23.0 for a device without
\* the property; 0.0 without spray devices.
BrineConcentration(assets) ==
    IF AssetsOfType(assets, "spray_device") = <<>> THEN RZero
    ELSE Mean([i \in 1..Len(AssetsOfType(assets, "spray_device")) |->
                 Get(AssetsOfType(assets, "spray_device")[i].properties,
                     "brine_concentration", RInt(23))])

\* The surface temperature predict works with: the measured one if the
\* environment has it, else the result of _compute_surface_temperature
\* (`computed`, any temperature the iteration may end on), plus the
\* calibration override.
SurfaceTemperature(env, params, computed) ==
    LET surface_temp == IF env.road_surface_temp = None THEN computed
                        ELSE Rat(env.road_surface_temp[1], 10)
    IN  IF params # None /\ "temp_correction" \in DOMAIN params[1]
        THEN RAdd(surface_temp, params[1].temp_correction)
        ELSE surface_temp

\* The dictionary predict returns for a surface temperature and a brine
\* concentration.
ThermalPrediction(surface_temp, brine_conc, env) ==
    [surface_temperature       |-> surface_temp,
     air_temperature           |-> env.temperature,
     freezing_point            |-> RAdd(FREEZING_POINT_WATER,
                                        freezing_point_depression(brine_conc)),
     freezing_point_depression |-> freezing_point_depression(brine_conc),
     brine_concentration       |-> brine_conc,
     is_icing                  |-> RLe(surface_temp,
                                       RAdd(FREEZING_POINT_WATER,
                                            freezing_point_depression(brine_conc))),
     is_warning                |-> /\ RLe(surface_temp, ICE_WARNING_TEMP)
                                   /\ ~RLe(surface_temp,
                                           RAdd(FREEZING_POINT_WATER,
                                                freezing_point_depression(brine_conc))),
     temperature_margin        |-> RSub(surface_temp,
                                        RAdd(FREEZING_POINT_WATER,
                                             freezing_point_depression(brine_conc)))]

\* ThermodynamicsEngine.predict
thermal_predict(assets, env, params, computed) ==
    ThermalPrediction(SurfaceTemperature(env, params, computed),
                      BrineConcentration(assets), env)

\* Mutant: the quotient is returned as it is.
thermal_safety_factor_unclamped(prediction) ==
    RDiv(Get(prediction, "temperature_margin", RZero), Rat(10, 3))

\* ThermodynamicsEngine.compute_safety_factor: max(margin / (5.0 / 1.5), 0.0).
thermal_safety_factor(prediction) ==
    IF RLt(RDiv(Get(prediction, "temperature_margin", RZero), Rat(10, 3)), RZero)
    THEN RZero
    ELSE RDiv(Get(prediction, "temperature_margin", RZero), Rat(10, 3))

\* Inputs of the thermal engine: devices with and without a brine
\* concentration (0 %, 10 %, above the eutectic 23.3 %), surface temperatures
\* on both sides of the freezing points 0, -6, -13.8 and -13.98 and of the
\* warning temperature.
BrineDevice(brine_concentration) ==
    [type |-> "spray_device",
     properties |-> [brine_concentration |-> brine_concentration]]

ThermalAssets ==
    { <<Road>>, FixtureAssets, <<Road, BrineDevice(RZero)>>,
      <<Road, BrineDevice(RInt(10)), BrineDevice(RInt(30))>>,
      <<BrineDevice(RInt(30))>> }

SurfaceTemps ==
    {None} \cup {Some(t) : t \in {-200, -140, -139, -138, -137, -60, -59, 0, 1, 30, 31, 100}}

ComputedTemps == {Rat(-15, 1), Rat(25, 10)}

ThermalParams ==
    {None, Some([temp_correction |-> Rat(-1, 10)]), Some([temp_correction |-> RInt(4)])}

InitThermal ==
    /\ \E assets \in ThermalAssets, t \in SurfaceTemps, computed \in ComputedTemps,
          params \in ThermalParams :
          arguments = Some([assets |-> assets,
                            environment |-> [FixtureEnvironment EXCEPT
                                                !.road_surface_temp = t],
                            params |-> params, computed |-> computed])
    /\ returned = None
    /\ OthersThanFnIdle

\* predict followed by compute_safety_factor, as run calls them.
ThermalPredict ==
    /\ returned = None
    /\ LET prediction == thermal_predict(arguments[1].assets, arguments[1].environment,
                                         arguments[1].params, arguments[1].computed)
       IN  returned' = Some([prediction |-> prediction,
                             safety_factor |-> thermal_safety_factor(prediction)])
    /\ UNCHANGED <<arguments, othersThanFn>>

NextThermal == ThermalPredict

SpecThermal == InitThermal /\ [][NextThermal]_vars

\* C30: in a thermal prediction is_icing and is_warning are never both
\* true; when is_icing is true the safety factor computed from the
\* prediction is 0.0, hence below 1.0; the thermal safety factor is never
\* negative.
C30_IcingExcludesWarningAndFails ==
    returned # None =>
        /\ ~(returned[1].prediction.is_icing /\ returned[1].prediction.is_warning)
        /\ returned[1].prediction.is_icing =>
              /\ returned[1].safety_factor = RZero
              /\ RLt(returned[1].safety_factor, ROne)
        /\ RLe(RZero, returned[1].safety_factor)

\* Icing well below the freezing point of the brine: the margin is negative.
C30_Witness ==
    /\ returned # None
    /\ returned[1].prediction.is_icing
    /\ ~returned[1].prediction.is_warning
    /\ RLt(returned[1].prediction.freezing_point, RZero)
    /\ RLt(returned[1].prediction.temperature_margin, RZero)
    /\ returned[1].safety_factor = RZero

====
